---- MODULE Spec2Model ----
(***************************************************************************)
(* Deferred GPU command queue and render-pass replay of the radium engine. *)
(*                                                                         *)
(* eng/command.rs : GpuCommand, EncoderCommand, CommandQueue,              *)
(*                  RenderPassOp, RenderPass (new, from_draw_ctx, render)  *)
(* gfx/draw.rs    : the recording methods of DrawCtx                       *)
(* eng/render.rs  : the mesh and model drawing helpers                     *)
(* gfx/window.rs  : RenderWindow (new, create_draw_context, resize)        *)
(*                                                                         *)
(* The device is a recorder: every call the replay makes on the surface,   *)
(* the encoder, the render-pass scope, the device queue and the frame is   *)
(* appended to device_log in the order the code makes it.                  *)
(***************************************************************************)
EXTENDS Integers, Sequences, FiniteSets, TLC

VARIABLES
    passes,       \* DrawCtx: the ordered list of RenderPass values
    pc,           \* position of the frame's driver
    result,       \* what the last render / submit call returned
    device_log,   \* every device call made so far, in order
    ncalls,       \* recording calls made on the context so far
    nrenders,     \* direct RenderPass::render calls made so far
    window,       \* RenderWindow: size, config, surface, depth texture
    nresizes,     \* RenderWindow::resize calls made so far
    ctx,          \* DrawCtx: the device and depth texture it was given
    event_loop,   \* Radium::start: control flow, frames and events so far
    caller_refs,  \* the handles the caller still holds a reference to
    loaded,       \* what the last call of load_model returned
    quad_buffer,  \* a QuadBuffer: vertices, indices, quads pushed
    npushes       \* push calls made on the QuadBuffer so far

(* the frame being recorded and replayed; what surrounds it; the assets *)
asset_vars == <<loaded, quad_buffer, npushes>>
frame_vars == <<passes, pc, result, device_log, ncalls, nrenders>>
host_vars == <<window, nresizes, ctx, event_loop, caller_refs, asset_vars>>

vars == <<frame_vars, host_vars>>

----------------------------------------------------------------------------
(* Bounds of the exploration *)

MaxPasses == 3
MaxCalls == 2
MaxPassCalls == 2
MaxRenders == 3
MaxRecordPasses == 2
MaxResizes == 2
MaxResizePasses == 2
MaxFrames == 2
MaxEvents == 1
MaxLoopCalls == 1
MaxLoopPasses == 2
MaxOwnCalls == 2
MaxOwnRenders == 2
MaxLightCalls == 2
MaxLightPasses == 2
MaxBundleCalls == 2
MaxBundles == 1
MaxWindowResizes == 4
MaxObjMaterials == 2
MaxObjMeshes == 2
MaxLoadCalls == 1
MaxQuads == 3

----------------------------------------------------------------------------
(* Resource handles: opaque, reference counted; a handle is its name *)

default_render_pipeline == "render_pipeline"
light_render_pipeline == "light_render_pipeline"
camera_bind_group == "camera_bind_group"
light_bind_group == "light_bind_group"

UserPipelines == {"user_pipeline"}
UserBindGroups == {"user_bind_group"}
UserBuffers == {"buffer_a", "buffer_b"}

(* the handles the caller made and passes to the recording calls *)
CallerHandles == UserPipelines \cup UserBindGroups \cup UserBuffers

BLACK == "BLACK"
WHITE == "WHITE"

Range(a, b) == [start |-> a, end |-> b]

(* gfx/model.rs *)
Mesh(vert_buff, index_buff, num_elements, material) ==
    [vert_buff |-> vert_buff, index_buff |-> index_buff,
     num_elements |-> num_elements, material |-> material]

Material(bind_group) == [bind_group |-> bind_group]

CubeMesh == Mesh("cube_vert_buff", "cube_index_buff", 36, 0)
QuadMesh == Mesh("quad_vert_buff", "quad_index_buff", 6, 0)
Meshes == {CubeMesh, QuadMesh}
Materials == {Material("mat_bind_group")}

(* gfx/model.rs: Model; Mesh.material indexes Model.materials from 0 *)
Model(meshes, materials) == [meshes |-> meshes, materials |-> materials]

LampMesh == Mesh("lamp_vert_buff", "lamp_index_buff", 12, 1)
ThreeMeshModel ==
    Model(<<CubeMesh, LampMesh, QuadMesh>>,
          <<Material("mat_bind_group"), Material("lamp_bind_group")>>)
EmptyModel == Model(<<>>, <<>>)
(* the second mesh names a material the model does not have *)
BrokenModel == Model(<<CubeMesh, LampMesh>>, <<Material("mat_bind_group")>>)
Models == {ThreeMeshModel, EmptyModel, BrokenModel}

----------------------------------------------------------------------------
(* eng/command.rs: enum GpuCommand *)

SetPipeline(pipeline) == [tag |-> "SetPipeline", pipeline |-> pipeline]
SetBindGroup(index, bind_group, offsets) ==
    [tag |-> "SetBindGroup", index |-> index, bind_group |-> bind_group,
     offsets |-> offsets]
SetBlendConstant(color) == [tag |-> "SetBlendConstant", color |-> color]
SetIndexBuffer(buffer, format) ==
    [tag |-> "SetIndexBuffer", buffer |-> buffer, format |-> format]
SetVertexBuffer(slot, buffer) ==
    [tag |-> "SetVertexBuffer", slot |-> slot, buffer |-> buffer]
SetScissorRect(x, y, width, height) ==
    [tag |-> "SetScissorRect", x |-> x, y |-> y, width |-> width,
     height |-> height]
SetViewPort(x, y, w, h, min_depth, max_depth) ==
    [tag |-> "SetViewPort", x |-> x, y |-> y, w |-> w, h |-> h,
     min_depth |-> min_depth, max_depth |-> max_depth]
SetStencilReference(reference) ==
    [tag |-> "SetStencilReference", reference |-> reference]
Draw(vertices, instances) ==
    [tag |-> "Draw", vertices |-> vertices, instances |-> instances]
InsertDebugMarker(label) == [tag |-> "InsertDebugMarker", label |-> label]
PushDebugGroup(label) == [tag |-> "PushDebugGroup", label |-> label]
PopDebugGroup == [tag |-> "PopDebugGroup"]
DrawIndexed(indices, base_vertex, instances) ==
    [tag |-> "DrawIndexed", indices |-> indices, base_vertex |-> base_vertex,
     instances |-> instances]
DrawIndirect(indirect_buffer, indirect_offset) ==
    [tag |-> "DrawIndirect", indirect_buffer |-> indirect_buffer,
     indirect_offset |-> indirect_offset]
DrawIndexedIndirect(indirect_buffer, indirect_offset) ==
    [tag |-> "DrawIndexedIndirect", indirect_buffer |-> indirect_buffer,
     indirect_offset |-> indirect_offset]
ExecuteBundles == [tag |-> "ExecuteBundles"]

(* Option<Vec<DynamicOffset>> *)
None == [some |-> FALSE, value |-> <<>>]
Some(v) == [some |-> TRUE, value |-> v]

(* eng/command.rs: enum EncoderCommand *)
CopyBufferToBuffer(src, src_offset, dst, dst_offset, copy_size) ==
    [tag |-> "CopyBufferToBuffer", src |-> src, src_offset |-> src_offset,
     dst |-> dst, dst_offset |-> dst_offset, copy_size |-> copy_size]

(* eng/command.rs:7-79: the Rc values a queued command owns that point at
   handle h *)
command_refs(cmd, h) ==
    CASE cmd.tag = "SetPipeline" -> IF cmd.pipeline = h THEN 1 ELSE 0
      [] cmd.tag = "SetBindGroup" -> IF cmd.bind_group = h THEN 1 ELSE 0
      [] cmd.tag \in {"SetIndexBuffer", "SetVertexBuffer"} ->
            IF cmd.buffer = h THEN 1 ELSE 0
      [] cmd.tag \in {"DrawIndirect", "DrawIndexedIndirect"} ->
            IF cmd.indirect_buffer = h THEN 1 ELSE 0
      [] cmd.tag = "CopyBufferToBuffer" ->
            (IF cmd.src = h THEN 1 ELSE 0) + (IF cmd.dst = h THEN 1 ELSE 0)
      [] OTHER -> 0

RECURSIVE commands_refs(_, _)
commands_refs(commands, h) ==
    IF commands = <<>>
    THEN 0
    ELSE command_refs(Head(commands), h) + commands_refs(Tail(commands), h)

(* mutant: a command borrows its handles and owns no reference *)
queue_refs_borrowed(q, h) == 0

(* the Rc values the CommandQueue q owns that point at h *)
queue_refs(q, h) ==
    commands_refs(q.draw_commands, h) + commands_refs(q.encoder_commands, h)

(* eng/command.rs: struct CommandQueue *)
CommandQueue_new == [draw_commands |-> <<>>, encoder_commands |-> <<>>]

(* mutant: only the draw channel is cleared *)
CommandQueue_clear_draw_only(q) ==
    [q EXCEPT !.draw_commands = <<>>]

CommandQueue_clear(q) ==
    [q EXCEPT !.draw_commands = <<>>, !.encoder_commands = <<>>]

(* eng/command.rs: enum RenderPassOp *)
Clear(color) == [kind |-> "Clear", color |-> color]
LoadFromMemory == [kind |-> "LoadFromMemory"]
CLEAR_BLACK == Clear(BLACK)
CLEAR_WHITE == Clear(WHITE)

(* eng/command.rs: RenderPass::new *)
RenderPass_new(surface, depth_texture, op) ==
    [command_queue |-> CommandQueue_new, surface |-> surface, op |-> op,
     depth_texture |-> depth_texture]

----------------------------------------------------------------------------
(* RenderWindow: the window, its surface configuration and depth texture *)

(* winit::dpi::PhysicalSize<u32> *)
PhysicalSize(width, height) == [width |-> width, height |-> height]

InitialSize == PhysicalSize(800, 600)

(* gfx/window.rs:219-222: Texture::depth_texture(device, config, label) is
   given the surface configuration and nothing else to size the texture
   with: a new texture of the configuration's extent; id tells apart
   textures made at different times *)
Texture_depth_texture(config, id) ==
    [label |-> "Depth Texture", width |-> config.width,
     height |-> config.height, id |-> id]

(* gfx/window.rs: RenderWindow::new: the surface is configured with the
   window's size, the depth texture is made from that configuration, the
   camera projection from its extent *)
RenderWindow_new ==
    [device_surface |-> "device_surface",
     size |-> InitialSize,
     config |-> InitialSize,
     surface_configured |-> InitialSize,
     depth_texture |-> Texture_depth_texture(InitialSize, 0),
     projection |-> InitialSize,
     textures_made |-> 1,
     configure_calls |-> 1]

(* mutant: every size is taken, a zero one too *)
resize_unguarded(self, new_size) ==
    [self EXCEPT
        !.size = new_size,
        !.config = new_size,
        !.surface_configured = new_size,
        !.depth_texture = Texture_depth_texture(new_size, self.textures_made),
        !.textures_made = self.textures_made + 1,
        !.configure_calls = self.configure_calls + 1,
        !.projection = new_size]

(* gfx/window.rs: RenderWindow::resize. projection is the extent that
   Projection::resize (camera.rs:252-254) computes the aspect ratio from *)
resize(self, new_size) ==
    LET sized ==
            IF new_size.width > 0 /\ new_size.height > 0
            THEN [self EXCEPT
                    !.size = new_size,
                    !.config = new_size,
                    !.surface_configured = new_size,
                    !.depth_texture =
                        Texture_depth_texture(new_size, self.textures_made),
                    !.textures_made = self.textures_made + 1,
                    !.configure_calls = self.configure_calls + 1]
            ELSE self
    IN  [sized EXCEPT !.projection = new_size]

----------------------------------------------------------------------------
(* The device calls the replay makes, as the recorder sees them *)

(* gfx/window.rs: DeviceSurface::get_current_texture; outcome is Ok or a
   wgpu::SurfaceError *)
SurfaceErrors == {"Timeout", "Outdated", "Lost", "OutOfMemory"}
AcquireOutcomes == {"Ok"} \cup SurfaceErrors

Ok == [ok |-> TRUE, err |-> "none"]
Err(e) == [ok |-> FALSE, err |-> e]
Panic == [ok |-> FALSE, err |-> "panic"]
NoResult == [ok |-> FALSE, err |-> "not called"]

get_current_texture(surface, outcome) ==
    [call |-> "get_current_texture", surface |-> surface, outcome |-> outcome]
create_command_encoder(surface) ==
    [call |-> "create_command_encoder", surface |-> surface]
end_render_pass == [call |-> "end_render_pass"]
queue_submit(surface) == [call |-> "queue_submit", surface |-> surface]
present(surface) == [call |-> "present", surface |-> surface]

(* command.rs:180: the depth clear value 1.0 *)
DepthClearValue == 1

(* mutant: the clear color is RenderPass::DEFAULT_CLEAR_COLOR, not the
   op's *)
color_load_op_default(op) ==
    IF op.kind = "Clear"
    THEN [load |-> "Clear", color |-> BLACK]
    ELSE [load |-> "Load"]

(* command.rs:168-171: load op of the color attachment *)
color_load_op(op) ==
    IF op.kind = "Clear"
    THEN [load |-> "Clear", color |-> op.color]
    ELSE [load |-> "Load"]

(* command.rs:179-182: load op of the depth attachment *)
depth_load_op(op) ==
    IF op.kind = "Clear"
    THEN [load |-> "Clear", depth |-> DepthClearValue]
    ELSE [load |-> "Load"]

(* command.rs:132-135: the view of the texture the surface hands out: it
   has the extent the surface is configured with when it is acquired *)
frame_view(surface) ==
    [surface |-> surface, width |-> window.surface_configured.width,
     height |-> window.surface_configured.height]

(* mutant: the depth attachment is fetched from the window at replay *)
begin_render_pass_call_refetch(self) ==
    [call |-> "begin_render_pass",
     color_view |-> frame_view(self.surface),
     color_load |-> color_load_op(self.op),
     color_store |-> TRUE,
     depth_view |-> window.depth_texture,
     depth_load |-> depth_load_op(self.op),
     depth_store |-> TRUE]

(* command.rs:162-188: encoder.begin_render_pass(descriptor) *)
begin_render_pass_call(self) ==
    [call |-> "begin_render_pass",
     color_view |-> frame_view(self.surface),
     color_load |-> color_load_op(self.op),
     color_store |-> TRUE,
     depth_view |-> self.depth_texture,
     depth_load |-> depth_load_op(self.op),
     depth_store |-> TRUE]

(* command.rs:140-158: one EncoderCommand replayed on the encoder *)
encoder_call(cmd) ==
    [call |-> "copy_buffer_to_buffer", src |-> cmd.src,
     src_offset |-> cmd.src_offset, dst |-> cmd.dst,
     dst_offset |-> cmd.dst_offset, copy_size |-> cmd.copy_size]

(* command.rs:191-231: one GpuCommand replayed on the render-pass scope;
   ExecuteBundles is todo!() and never reaches this *)
rp_call(cmd) ==
    CASE cmd.tag = "SetPipeline" ->
            [call |-> "set_pipeline", pipeline |-> cmd.pipeline]
      [] cmd.tag = "SetBindGroup" ->
            [call |-> "set_bind_group", index |-> cmd.index,
             bind_group |-> cmd.bind_group,
             offsets |-> IF cmd.offsets.some THEN cmd.offsets.value ELSE <<>>]
      [] cmd.tag = "SetBlendConstant" ->
            [call |-> "set_blend_constant", color |-> cmd.color]
      [] cmd.tag = "SetIndexBuffer" ->
            [call |-> "set_index_buffer", buffer |-> cmd.buffer,
             format |-> cmd.format]
      [] cmd.tag = "SetVertexBuffer" ->
            [call |-> "set_vertex_buffer", slot |-> cmd.slot,
             buffer |-> cmd.buffer]
      [] cmd.tag = "SetScissorRect" ->
            [call |-> "set_scissor_rect", x |-> cmd.x, y |-> cmd.y,
             width |-> cmd.width, height |-> cmd.height]
      [] cmd.tag = "SetViewPort" ->
            [call |-> "set_viewport", x |-> cmd.x, y |-> cmd.y, w |-> cmd.w,
             h |-> cmd.h, min_depth |-> cmd.min_depth,
             max_depth |-> cmd.max_depth]
      [] cmd.tag = "SetStencilReference" ->
            [call |-> "set_stencil_reference", reference |-> cmd.reference]
      [] cmd.tag = "Draw" ->
            [call |-> "draw", vertices |-> cmd.vertices,
             instances |-> cmd.instances]
      [] cmd.tag = "InsertDebugMarker" ->
            [call |-> "insert_debug_marker", label |-> cmd.label]
      [] cmd.tag = "PushDebugGroup" ->
            [call |-> "push_debug_group", label |-> cmd.label]
      [] cmd.tag = "PopDebugGroup" ->
            [call |-> "pop_debug_group"]
      [] cmd.tag = "DrawIndexed" ->
            [call |-> "draw_indexed", indices |-> cmd.indices,
             base_vertex |-> cmd.base_vertex, instances |-> cmd.instances]
      [] cmd.tag = "DrawIndirect" ->
            [call |-> "draw_indirect",
             indirect_buffer |-> cmd.indirect_buffer,
             indirect_offset |-> cmd.indirect_offset]
      [] cmd.tag = "DrawIndexedIndirect" ->
            [call |-> "draw_indexed_indirect",
             indirect_buffer |-> cmd.indirect_buffer,
             indirect_offset |-> cmd.indirect_offset]

(* command.rs:140-158: the loop over encoder_commands *)
replay_encoder_commands(cmds) ==
    [i \in 1..Len(cmds) |-> encoder_call(cmds[i])]

(* command.rs:190-233: the loop over draw_commands; it stops, panicking, at
   the first ExecuteBundles *)
first_unimplemented(cmds) ==
    IF \E i \in 1..Len(cmds) : cmds[i].tag = "ExecuteBundles"
    THEN CHOOSE i \in 1..Len(cmds) :
            /\ cmds[i].tag = "ExecuteBundles"
            /\ \A j \in 1..(i - 1) : cmds[j].tag /= "ExecuteBundles"
    ELSE 0

(* mutant: the queue is replayed from its end *)
replay_draw_commands_reversed(cmds) ==
    LET stop == first_unimplemented(cmds)
        n == IF stop = 0 THEN Len(cmds) ELSE stop - 1
    IN  [i \in 1..n |-> rp_call(cmds[n + 1 - i])]

replay_draw_commands(cmds) ==
    LET stop == first_unimplemented(cmds)
        n == IF stop = 0 THEN Len(cmds) ELSE stop - 1
    IN  [i \in 1..n |-> rp_call(cmds[i])]

(* mutant: the transfers are replayed after the render-pass scope is
   opened *)
render_copies_in_scope(self, outcome) ==
    LET q == self.command_queue
        acquire == <<get_current_texture(self.surface, outcome)>>
        recorded ==
            acquire
            \o <<create_command_encoder(self.surface)>>
            \o <<begin_render_pass_call(self)>>
            \o replay_encoder_commands(q.encoder_commands)
            \o replay_draw_commands(q.draw_commands)
    IN  IF outcome /= "Ok"
        THEN [result |-> Err(outcome), self |-> self, calls |-> acquire]
        ELSE [result |-> Ok,
              self |-> [self EXCEPT
                          !.command_queue = CommandQueue_clear(q)],
              calls |-> recorded
                        \o <<end_render_pass, queue_submit(self.surface),
                             present(self.surface)>>]

(* mutant: a failed acquisition is swallowed and Ok returned *)
render_swallows_error(self, outcome) ==
    LET q == self.command_queue
        acquire == <<get_current_texture(self.surface, outcome)>>
    IN  IF outcome /= "Ok"
        THEN [result |-> Ok, self |-> self, calls |-> acquire]
        ELSE [result |-> Ok,
              self |-> [self EXCEPT
                          !.command_queue = CommandQueue_clear(q)],
              calls |-> acquire
                        \o <<create_command_encoder(self.surface)>>
                        \o replay_encoder_commands(q.encoder_commands)
                        \o <<begin_render_pass_call(self)>>
                        \o replay_draw_commands(q.draw_commands)
                        \o <<end_render_pass, queue_submit(self.surface),
                             present(self.surface)>>]

(* mutant: the finished encoder is never handed to the device queue *)
render_no_queue_submit(self, outcome) ==
    LET q == self.command_queue
        acquire == <<get_current_texture(self.surface, outcome)>>
    IN  IF outcome /= "Ok"
        THEN [result |-> Err(outcome), self |-> self, calls |-> acquire]
        ELSE [result |-> Ok,
              self |-> [self EXCEPT
                          !.command_queue = CommandQueue_clear(q)],
              calls |-> acquire
                        \o <<create_command_encoder(self.surface)>>
                        \o replay_encoder_commands(q.encoder_commands)
                        \o <<begin_render_pass_call(self)>>
                        \o replay_draw_commands(q.draw_commands)
                        \o <<end_render_pass, present(self.surface)>>]

(* mutant: the queue is not cleared after the replay *)
render_keeps_queue(self, outcome) ==
    LET q == self.command_queue
        acquire == <<get_current_texture(self.surface, outcome)>>
    IN  IF outcome /= "Ok"
        THEN [result |-> Err(outcome), self |-> self, calls |-> acquire]
        ELSE [result |-> Ok,
              self |-> self,
              calls |-> acquire
                        \o <<create_command_encoder(self.surface)>>
                        \o replay_encoder_commands(q.encoder_commands)
                        \o <<begin_render_pass_call(self)>>
                        \o replay_draw_commands(q.draw_commands)
                        \o <<end_render_pass, queue_submit(self.surface),
                             present(self.surface)>>]

(* mutant: a failed acquisition empties the queue before it returns *)
render_clears_on_error(self, outcome) ==
    LET q == self.command_queue
        acquire == <<get_current_texture(self.surface, outcome)>>
    IN  IF outcome /= "Ok"
        THEN [result |-> Err(outcome),
              self |-> [self EXCEPT !.command_queue = CommandQueue_clear(q)],
              calls |-> acquire]
        ELSE [result |-> Ok,
              self |-> [self EXCEPT !.command_queue = CommandQueue_clear(q)],
              calls |-> acquire
                        \o <<create_command_encoder(self.surface)>>
                        \o replay_encoder_commands(q.encoder_commands)
                        \o <<begin_render_pass_call(self)>>
                        \o replay_draw_commands(q.draw_commands)
                        \o <<end_render_pass, queue_submit(self.surface),
                             present(self.surface)>>]

(* mutant: an ExecuteBundles command is passed over and the render goes on *)
render_skips_unimplemented(self, outcome) ==
    LET q == self.command_queue
        acquire == <<get_current_texture(self.surface, outcome)>>
        implemented ==
            SelectSeq(q.draw_commands, LAMBDA c : c.tag /= "ExecuteBundles")
    IN  IF outcome /= "Ok"
        THEN [result |-> Err(outcome), self |-> self, calls |-> acquire]
        ELSE [result |-> Ok,
              self |-> [self EXCEPT
                          !.command_queue = CommandQueue_clear(q)],
              calls |-> acquire
                        \o <<create_command_encoder(self.surface)>>
                        \o replay_encoder_commands(q.encoder_commands)
                        \o <<begin_render_pass_call(self)>>
                        \o [i \in 1..Len(implemented) |->
                                rp_call(implemented[i])]
                        \o <<end_render_pass, queue_submit(self.surface),
                             present(self.surface)>>]

(* command.rs:235: self.command_queue.clear(), a step of render that is no
   device call *)
command_queue_clear == [call |-> "command_queue.clear"]

(* command.rs:132-237: the steps of a render that runs to its end, in the
   order of the code: the scope closes where the block of line 161 ends *)
render_steps(self, outcome) ==
    <<get_current_texture(self.surface, outcome),
      create_command_encoder(self.surface)>>
    \o replay_encoder_commands(self.command_queue.encoder_commands)
    \o <<begin_render_pass_call(self)>>
    \o replay_draw_commands(self.command_queue.draw_commands)
    \o <<end_render_pass, command_queue_clear, queue_submit(self.surface),
         present(self.surface)>>

(* the device calls among steps *)
device_calls(steps) ==
    SelectSeq(steps, LAMBDA c : c.call /= "command_queue.clear")

(* mutant: the frame is presented before the encoder is submitted *)
render_presents_first(self, outcome) ==
    LET q == self.command_queue
        acquire == <<get_current_texture(self.surface, outcome)>>
        recorded ==
            acquire
            \o <<create_command_encoder(self.surface)>>
            \o replay_encoder_commands(q.encoder_commands)
            \o <<begin_render_pass_call(self)>>
            \o replay_draw_commands(q.draw_commands)
    IN  IF outcome /= "Ok"
        THEN [result |-> Err(outcome), self |-> self, calls |-> acquire]
        ELSE IF first_unimplemented(q.draw_commands) /= 0
        THEN [result |-> Panic, self |-> self, calls |-> recorded]
        ELSE [result |-> Ok,
              self |-> [self EXCEPT
                          !.command_queue = CommandQueue_clear(q)],
              calls |-> recorded
                        \o <<end_render_pass, present(self.surface),
                             queue_submit(self.surface)>>]

(* command.rs:131-240: RenderPass::render. outcome is what the surface
   answers to get_current_texture. The value is the returned Result, the
   pass as the call leaves it, and the device calls made, in order. *)
render(self, outcome) ==
    LET q == self.command_queue
        acquire == <<get_current_texture(self.surface, outcome)>>
        recorded ==
            acquire
            \o <<create_command_encoder(self.surface)>>
            \o replay_encoder_commands(q.encoder_commands)
            \o <<begin_render_pass_call(self)>>
            \o replay_draw_commands(q.draw_commands)
    IN  IF outcome /= "Ok"
        THEN [result |-> Err(outcome), self |-> self, calls |-> acquire]
        ELSE IF first_unimplemented(q.draw_commands) /= 0
        THEN [result |-> Panic, self |-> self, calls |-> recorded]
        ELSE [result |-> Ok,
              self |-> [self EXCEPT
                          !.command_queue = CommandQueue_clear(q)],
              calls |-> device_calls(render_steps(self, outcome))]

----------------------------------------------------------------------------
(* gfx/draw.rs: the recording methods of DrawCtx. command_queue is the
   draw-command channel the method pushes on; the value is that channel
   after the call. *)

(* mutant: selecting a pipeline starts the queue afresh *)
set_pipeline_resets(command_queue, pipeline) ==
    <<SetPipeline(pipeline)>>

set_pipeline(command_queue, pipeline) ==
    Append(command_queue, SetPipeline(pipeline))

set_bind_group(command_queue, index, bind_group, offsets) ==
    Append(command_queue, SetBindGroup(index, bind_group, offsets))

set_blend_constant(command_queue, color) ==
    Append(command_queue, SetBlendConstant(color))

set_index_buffer(command_queue, buffer, format) ==
    Append(command_queue, SetIndexBuffer(buffer, format))

set_vertex_buffer(command_queue, slot, buffer) ==
    Append(command_queue, SetVertexBuffer(slot, buffer))

set_scissor_rect(command_queue, x, y, width, height) ==
    Append(command_queue, SetScissorRect(x, y, width, height))

set_viewport(command_queue, x, y, width, height, min_depth, max_depth) ==
    Append(command_queue,
           SetViewPort(x, y, width, height, min_depth, max_depth))

set_stencil_reference(command_queue, reference) ==
    Append(command_queue, SetStencilReference(reference))

draw(command_queue, verticies, instances) ==
    Append(command_queue, Draw(verticies, instances))

insert_debug_marker(command_queue, label) ==
    Append(command_queue, InsertDebugMarker(label))

push_debug_group(command_queue, label) ==
    Append(command_queue, PushDebugGroup(label))

pop_debug_group(command_queue) ==
    Append(command_queue, PopDebugGroup)

draw_indexed(command_queue, indices, base_vertex, instances) ==
    Append(command_queue, DrawIndexed(indices, base_vertex, instances))

(* mutant: draw_indirect records the indexed variant *)
draw_indirect_as_indexed(command_queue, indirect_buffer, indirect_offset) ==
    Append(command_queue,
           DrawIndexedIndirect(indirect_buffer, indirect_offset))

draw_indirect(command_queue, indirect_buffer, indirect_offset) ==
    Append(command_queue, DrawIndirect(indirect_buffer, indirect_offset))

draw_indexed_indirect(command_queue, indirect_buffer, indirect_offset) ==
    Append(command_queue,
           DrawIndexedIndirect(indirect_buffer, indirect_offset))

(* mutant: the bind groups are bound as light::draw_light_mesh_instanced
   binds them, camera at 0 and light at 1, the material last *)
mesh_draw_mesh_instanced_light_slots(mesh, mat, instances, camera, light) ==
    << SetVertexBuffer(0, mesh.vert_buff),
       SetIndexBuffer(mesh.index_buff, "Uint32"),
       SetBindGroup(0, camera, None),
       SetBindGroup(1, light, None),
       SetBindGroup(2, mat.bind_group, None),
       DrawIndexed(Range(0, mesh.num_elements), 0, instances) >>

(* eng/render.rs: mesh::draw_mesh_instanced, the calls it makes in order,
   each as the command that stands for it *)
mesh_draw_mesh_instanced(mesh, mat, instances, camera, light) ==
    << SetVertexBuffer(0, mesh.vert_buff),
       SetIndexBuffer(mesh.index_buff, "Uint32"),
       SetBindGroup(0, mat.bind_group, None),
       SetBindGroup(1, camera, None),
       SetBindGroup(2, light, None),
       DrawIndexed(Range(0, mesh.num_elements), 0, instances) >>

(* gfx/draw.rs: DrawCtx::draw_mesh_instanced *)
draw_mesh_instanced(command_queue, mesh, mat, instances) ==
    Append(command_queue, SetPipeline(default_render_pipeline))
    \o mesh_draw_mesh_instanced(mesh, mat, instances,
                                camera_bind_group, light_bind_group)

(* gfx/draw.rs: DrawCtx::draw_mesh *)
draw_mesh(command_queue, mesh, mat) ==
    draw_mesh_instanced(command_queue, mesh, mat, Range(0, 1))

(* the first mesh of the model whose material index is out of range, 0 when
   there is none: indexing model.materials with it panics *)
first_bad_material(model) ==
    LET bad == { i \in 1..Len(model.meshes) :
                    model.meshes[i].material >= Len(model.materials) }
    IN  IF bad = {} THEN 0
        ELSE CHOOSE i \in bad : \A j \in bad : i <= j

(* mutant: every mesh is drawn with the first material of the model *)
RECURSIVE mesh_draw_model_instanced_first_material(_, _, _, _, _)
mesh_draw_model_instanced_first_material(model, instances, camera, light, i) ==
    IF i > Len(model.meshes) \/ first_bad_material(model) = i
    THEN <<>>
    ELSE mesh_draw_mesh_instanced(model.meshes[i], model.materials[1],
                                  instances, camera, light)
         \o mesh_draw_model_instanced_first_material(model, instances,
                                                     camera, light, i + 1)

(* eng/render.rs: mesh::draw_model_instanced, the loop from mesh i on: the
   calls made until the loop ends or the material lookup panics *)
RECURSIVE mesh_draw_model_instanced(_, _, _, _, _)
mesh_draw_model_instanced(model, instances, camera, light, i) ==
    IF i > Len(model.meshes) \/ first_bad_material(model) = i
    THEN <<>>
    ELSE LET mesh == model.meshes[i]
             mat == model.materials[mesh.material + 1]
         IN  mesh_draw_mesh_instanced(mesh, mat, instances, camera, light)
             \o mesh_draw_model_instanced(model, instances, camera, light,
                                          i + 1)

(* mutant: the pipeline is selected again before every mesh *)
RECURSIVE pipeline_per_mesh(_, _, _)
pipeline_per_mesh(model, instances, i) ==
    IF i > Len(model.meshes) \/ first_bad_material(model) = i
    THEN <<>>
    ELSE <<SetPipeline(default_render_pipeline)>>
         \o mesh_draw_mesh_instanced(model.meshes[i],
                model.materials[model.meshes[i].material + 1], instances,
                camera_bind_group, light_bind_group)
         \o pipeline_per_mesh(model, instances, i + 1)

draw_model_instanced_pipeline_per_mesh(command_queue, model, instances) ==
    IF first_bad_material(model) /= 0 \/ model.meshes = <<>>
    THEN Append(command_queue, SetPipeline(default_render_pipeline))
    ELSE command_queue \o pipeline_per_mesh(model, instances, 1)

(* mutant: the model is validated first, a bad one leaves the queue alone *)
draw_model_instanced_validated(command_queue, model, instances) ==
    IF first_bad_material(model) /= 0
    THEN command_queue
    ELSE Append(command_queue, SetPipeline(default_render_pipeline))
         \o mesh_draw_model_instanced(model, instances, camera_bind_group,
                                      light_bind_group, 1)

(* gfx/draw.rs: DrawCtx::draw_model_instanced: the pipeline is pushed, the
   commands of the model are built and then added; a panic while they are
   built leaves the queue with the pipeline only *)
draw_model_instanced(command_queue, model, instances) ==
    LET head == Append(command_queue, SetPipeline(default_render_pipeline))
    IN  IF first_bad_material(model) /= 0
        THEN head
        ELSE head \o mesh_draw_model_instanced(model, instances,
                        camera_bind_group, light_bind_group, 1)

(* gfx/draw.rs: DrawCtx::draw_model *)
draw_model(command_queue, model) ==
    draw_model_instanced(command_queue, model, Range(0, 1))

(* mutant: the light helper binds as the mesh helper does, camera at 1 and
   light at 2 *)
light_draw_light_mesh_instanced_mesh_slots(mesh, instances, camera, light) ==
    << SetVertexBuffer(0, mesh.vert_buff),
       SetIndexBuffer(mesh.index_buff, "Uint32"),
       SetBindGroup(1, camera, None),
       SetBindGroup(2, light, None),
       DrawIndexed(Range(0, mesh.num_elements), 0, instances) >>

(* eng/render.rs: light::draw_light_mesh_instanced, the calls it makes in
   order, each as the command that stands for it *)
light_draw_light_mesh_instanced(mesh, instances, camera, light) ==
    << SetVertexBuffer(0, mesh.vert_buff),
       SetIndexBuffer(mesh.index_buff, "Uint32"),
       SetBindGroup(0, camera, None),
       SetBindGroup(1, light, None),
       DrawIndexed(Range(0, mesh.num_elements), 0, instances) >>

(* eng/render.rs: light::draw_light_model_instanced, the loop from mesh i
   on; no material is looked up *)
RECURSIVE light_draw_light_model_instanced(_, _, _, _, _)
light_draw_light_model_instanced(model, instances, camera, light, i) ==
    IF i > Len(model.meshes)
    THEN <<>>
    ELSE light_draw_light_mesh_instanced(model.meshes[i], instances, camera,
                                         light)
         \o light_draw_light_model_instanced(model, instances, camera, light,
                                             i + 1)

(* gfx/draw.rs: DrawCtx::draw_light_mesh_instanced *)
draw_light_mesh_instanced(command_queue, mesh, instances) ==
    Append(command_queue, SetPipeline(light_render_pipeline))
    \o light_draw_light_mesh_instanced(mesh, instances, camera_bind_group,
                                       light_bind_group)

(* gfx/draw.rs: DrawCtx::draw_light_mesh *)
draw_light_mesh(command_queue, mesh) ==
    draw_light_mesh_instanced(command_queue, mesh, Range(0, 1))

(* gfx/draw.rs: DrawCtx::draw_light_model_instanced *)
draw_light_model_instanced(command_queue, model, instances) ==
    Append(command_queue, SetPipeline(light_render_pipeline))
    \o light_draw_light_model_instanced(model, instances, camera_bind_group,
                                        light_bind_group, 1)

(* gfx/draw.rs: DrawCtx::draw_light_model *)
draw_light_model(command_queue, model) ==
    draw_light_model_instanced(command_queue, model, Range(0, 1))

----------------------------------------------------------------------------
(* sys/fs.rs: load_model. An object file as the parser hands it over: the
   outcome of reading its material library, the materials of the library,
   and the models, each with its index count and the material_id the
   parser gave its mesh (None when the mesh names no material) *)

NotLoaded == [result |-> NoResult, model |-> EmptyModel]

SeqsUpTo(S, n) == UNION { [1..k -> S] : k \in 0..n }

MtlEntries ==
    { [name |-> "mat", diffuse_texture |-> TRUE, normal_texture |-> TRUE,
       readable |-> TRUE],
      [name |-> "lamp", diffuse_texture |-> TRUE, normal_texture |-> TRUE,
       readable |-> TRUE],
      [name |-> "bare", diffuse_texture |-> TRUE, normal_texture |-> FALSE,
       readable |-> TRUE],
      [name |-> "torn", diffuse_texture |-> TRUE, normal_texture |-> TRUE,
       readable |-> FALSE] }

ObjModels(nmat) ==
    { [indices |-> n, material_id |-> id] :
        n \in {6, 36},
        id \in {None} \cup { Some(i) : i \in 0..(nmat - 1) } }

ObjFile(obj_ok, mtl_ok, materials, models) ==
    [obj_ok |-> obj_ok, mtl_ok |-> mtl_ok, materials |-> materials,
     models |-> models]

(* fs.rs:105-130: the first material of the library that cannot be made
   into a Material, 0 when there is none *)
first_bad_mtl(materials) ==
    LET bad == { i \in 1..Len(materials) :
                    \/ ~materials[i].diffuse_texture
                    \/ ~materials[i].normal_texture
                    \/ ~materials[i].readable }
    IN  IF bad = {} THEN 0
        ELSE CHOOSE i \in bad : \A j \in bad : i <= j

(* fs.rs:78-241: the error of reading the object file (84, 102) or its
   material library (105) is returned; a material without a diffuse or
   normal texture panics (110, 119) and one whose texture cannot be read
   returns the error (111); each material of the library becomes a
   Material (123-129) and each model a Mesh whose material is
   material_id.unwrap_or(0) (232-238) *)
load_model(obj) ==
    LET bad == first_bad_mtl(obj.materials)
    IN  IF ~obj.obj_ok
        THEN [result |-> Err("obj"), model |-> EmptyModel]
        ELSE IF ~obj.mtl_ok
        THEN [result |-> Err("mtl"), model |-> EmptyModel]
        ELSE IF bad # 0 /\ ~obj.materials[bad].diffuse_texture
        THEN [result |-> Panic, model |-> EmptyModel]
        ELSE IF bad # 0 /\ ~obj.materials[bad].readable
        THEN [result |-> Err("texture"), model |-> EmptyModel]
        ELSE IF bad # 0
        THEN [result |-> Panic, model |-> EmptyModel]
        ELSE [result |-> Ok,
              model |-> Model(
                [j \in 1..Len(obj.models) |->
                    Mesh("obj_vert_buff", "obj_index_buff",
                         obj.models[j].indices,
                         IF obj.models[j].material_id.some
                         THEN obj.models[j].material_id.value
                         ELSE 0)],
                [i \in 1..Len(obj.materials) |->
                    Material(obj.materials[i].name)])]

----------------------------------------------------------------------------
(* gfx/geom.rs: Quad and QuadBuffer. Coordinates are integers here; the
   sizes tried are even, so that the halves are exact *)

Vertex2D(position, tex_coords) ==
    [position |-> position, tex_coords |-> tex_coords]

Quad(x, y, w, h) == [origin |-> [x |-> x, y |-> y], size |-> [x |-> w, y |-> h]]

(* geom.rs:37-52: Quad::as_verts *)
as_verts(self) ==
    LET hh == self.size.y \div 2
        hl == self.size.x \div 2
        top_left == <<self.origin.x - hl, self.origin.y - hh, 0>>
        top_right == <<self.origin.x + hl, self.origin.y - hh, 0>>
        bottom_right == <<self.origin.x + hl, self.origin.y + hh, 0>>
        bottom_left == <<self.origin.x - hl, self.origin.y + hh, 0>>
    IN  << Vertex2D(top_left, <<0, 0>>),
           Vertex2D(top_right, <<1, 0>>),
           Vertex2D(bottom_right, <<1, 1>>),
           Vertex2D(bottom_left, <<0, 1>>) >>

(* a Matrix4 as its four rows; the product with the column (x, y, z, 1) *)
Identity4 ==
    << <<1, 0, 0, 0>>, <<0, 1, 0, 0>>, <<0, 0, 1, 0>>, <<0, 0, 0, 1>> >>
Translation4(x, y, z) ==
    << <<1, 0, 0, x>>, <<0, 1, 0, y>>, <<0, 0, 1, z>>, <<0, 0, 0, 1>> >>
Scale4(k) ==
    << <<k, 0, 0, 0>>, <<0, k, 0, 0>>, <<0, 0, k, 0>>, <<0, 0, 0, 1>> >>

Row4(row, v) ==
    row[1] * v[1] + row[2] * v[2] + row[3] * v[3] + row[4] * v[4]

(* geom.rs:103-112: translate_verts *)
translate_verts(verts, xform) ==
    [i \in 1..Len(verts) |->
        LET v == verts[i]
            pos == <<v.position[1], v.position[2], v.position[3], 1>>
            new_pos == <<Row4(xform[1], pos), Row4(xform[2], pos),
                         Row4(xform[3], pos)>>
        IN  Vertex2D(new_pos, v.tex_coords)]

(* geom.rs:64-70: QuadBuffer::empty *)
QuadBuffer_empty == [vert_buf |-> <<>>, index_buf |-> <<>>, current |-> 0]

(* geom.rs:76-83, 91-98: the six indices of the quad being pushed *)
quad_indices(current) ==
    << current * 4 + 0, current * 4 + 1, current * 4 + 2,
       current * 4 + 0, current * 4 + 2, current * 4 + 3 >>

(* geom.rs:72-85: QuadBuffer::push_quad *)
push_quad(self, quad) ==
    [vert_buf |-> self.vert_buf \o as_verts(quad),
     index_buf |-> self.index_buf \o quad_indices(self.current),
     current |-> self.current + 1]

(* mutant: the quad is pushed but not counted *)
push_with_xform_uncounted(self, quad, xform) ==
    [vert_buf |-> self.vert_buf \o translate_verts(as_verts(quad), xform),
     index_buf |-> self.index_buf \o quad_indices(self.current),
     current |-> self.current]

(* geom.rs:87-100: QuadBuffer::push_with_xform *)
push_with_xform(self, quad, xform) ==
    [vert_buf |-> self.vert_buf \o translate_verts(as_verts(quad), xform),
     index_buf |-> self.index_buf \o quad_indices(self.current),
     current |-> self.current + 1]

----------------------------------------------------------------------------
(* DrawCtx: the pass list and its management *)

(* gfx/window.rs: RenderWindow::create_draw_context hands the context the
   window's device surface and depth texture *)
create_draw_context(self) ==
    [device |-> self.device_surface, depth_texture |-> self.depth_texture]

ctx_device == ctx.device
ctx_depth_texture == ctx.depth_texture

(* mutant: every pass is created clearing to black, whatever op is given *)
from_draw_ctx_clear_black(op) ==
    RenderPass_new(ctx_device, ctx_depth_texture, CLEAR_BLACK)

(* eng/command.rs: RenderPass::from_draw_ctx *)
from_draw_ctx(op) == RenderPass_new(ctx_device, ctx_depth_texture, op)

(* mutant: the first pass of the list is taken for the current one *)
current_pass_mut_first(ps) == 1

(* DrawCtx::current_pass_mut: the index of the last pass of the list *)
current_pass_mut(ps) == Len(ps)

(* the channels of the current pass *)
current_draw_commands ==
    passes[current_pass_mut(passes)].command_queue.draw_commands

current_encoder_commands ==
    passes[current_pass_mut(passes)].command_queue.encoder_commands

(* mutant: the offsets of source and destination change places *)
copy_buffer_offsets_swapped(q, src, src_offset, dst, dst_offset, size) ==
    Append(q,
           CopyBufferToBuffer(src, dst_offset, dst, src_offset, size))

(* DrawCtx::copy_buffer, on the transfer channel of the current pass *)
copy_buffer(encoder_commands, src, src_offset, dst, dst_offset, size) ==
    Append(encoder_commands,
           CopyBufferToBuffer(src, src_offset, dst, dst_offset, size))

(* DrawCtx::submit: render every pass in creation order, stop at the first
   that does not return Ok. outcomes[i] is what the surface answers when
   pass i asks for its texture. *)
RECURSIVE submit_from(_, _, _)
submit_from(ps, outcomes, i) ==
    IF i > Len(ps)
    THEN [result |-> Ok, passes |-> ps, calls |-> <<>>]
    ELSE LET r == render(ps[i], outcomes[i])
             done == [ps EXCEPT ![i] = r.self]
         IN  IF ~r.result.ok
             THEN [result |-> r.result, passes |-> done, calls |-> r.calls]
             ELSE LET rest == submit_from(done, outcomes, i + 1)
                  IN  [result |-> rest.result, passes |-> rest.passes,
                       calls |-> r.calls \o rest.calls]

(* mutant: the passes are rendered from the last one back to the first *)
RECURSIVE submit_back_from(_, _, _)
submit_back_from(ps, outcomes, i) ==
    IF i < 1
    THEN [result |-> Ok, passes |-> ps, calls |-> <<>>]
    ELSE LET r == render(ps[i], outcomes[i])
             done == [ps EXCEPT ![i] = r.self]
         IN  IF ~r.result.ok
             THEN [result |-> r.result, passes |-> done, calls |-> r.calls]
             ELSE LET rest == submit_back_from(done, outcomes, i - 1)
                  IN  [result |-> rest.result, passes |-> rest.passes,
                       calls |-> r.calls \o rest.calls]

submit_reversed(ps, outcomes) == submit_back_from(ps, outcomes, Len(ps))

submit(ps, outcomes) == submit_from(ps, outcomes, 1)

(* where a call that returned r leaves the driver *)
after_replay(r, ok_pc) ==
    IF r.ok THEN ok_pc
    ELSE IF r = Panic THEN "panicked"
    ELSE "failed"

----------------------------------------------------------------------------
(* State machine *)

Init ==
    /\ passes = <<>>
    /\ pc = "recording"
    /\ result = NoResult
    /\ device_log = <<>>
    /\ ncalls = 0
    /\ nrenders = 0
    /\ window = RenderWindow_new
    /\ nresizes = 0
    /\ ctx = create_draw_context(RenderWindow_new)
    /\ event_loop = [control_flow |-> "Poll", frames |-> 0, events |-> 0,
                     keyboard |-> 0, kept |-> 0]
    /\ caller_refs = CallerHandles
    /\ loaded = NotLoaded
    /\ quad_buffer = QuadBuffer_empty
    /\ npushes = 0

(* mutant: the pass asks the surface for its texture when it is begun *)
begin_render_pass_acquires(op) ==
    /\ pc = "recording"
    /\ passes' = Append(passes, from_draw_ctx(op))
    /\ device_log' = Append(device_log, get_current_texture(ctx_device, "Ok"))
    /\ UNCHANGED <<pc, result, ncalls, nrenders, host_vars>>

(* DrawCtx::begin_render_pass(op) *)
begin_render_pass(op) ==
    /\ pc = "recording"
    /\ passes' = Append(passes, from_draw_ctx(op))
    /\ UNCHANGED <<pc, result, device_log, ncalls, nrenders, host_vars>>

(* mutant: with no pass begun the call is dropped and recording goes on *)
RecordDraw_dropped_without_pass(draw_commands) ==
    /\ pc = "recording"
    /\ ncalls' = ncalls + 1
    /\ IF passes = <<>>
       THEN UNCHANGED passes
       ELSE passes' = [passes EXCEPT
                ![current_pass_mut(passes)].command_queue.draw_commands =
                    draw_commands]
    /\ UNCHANGED <<pc, result, device_log, nrenders, host_vars>>

(* A recording call: with no pass begun current_pass_mut fails fast, else
   the draw channel of the current pass becomes draw_commands *)
RecordDraw(draw_commands) ==
    /\ pc = "recording"
    /\ ncalls' = ncalls + 1
    /\ IF passes = <<>>
       THEN /\ pc' = "panicked"
            /\ UNCHANGED passes
       ELSE /\ passes' = [passes EXCEPT
                ![current_pass_mut(passes)].command_queue.draw_commands =
                    draw_commands]
            /\ UNCHANGED pc
    /\ UNCHANGED <<result, device_log, nrenders, host_vars>>

(* A recording call that panics after it left draw_commands in the draw
   channel of the current pass *)
RecordDrawPanic(draw_commands) ==
    /\ pc = "recording"
    /\ ncalls' = ncalls + 1
    /\ pc' = "panicked"
    /\ IF passes = <<>>
       THEN UNCHANGED passes
       ELSE passes' = [passes EXCEPT
                ![current_pass_mut(passes)].command_queue.draw_commands =
                    draw_commands]
    /\ UNCHANGED <<result, device_log, nrenders, host_vars>>

(* the same for the transfer channel *)
RecordTransfer(encoder_commands) ==
    /\ pc = "recording"
    /\ ncalls' = ncalls + 1
    /\ IF passes = <<>>
       THEN /\ pc' = "panicked"
            /\ UNCHANGED passes
       ELSE /\ passes' = [passes EXCEPT
                ![current_pass_mut(passes)].command_queue.encoder_commands =
                    encoder_commands]
            /\ UNCHANGED pc
    /\ UNCHANGED <<result, device_log, nrenders, host_vars>>

DrawCtx_set_pipeline(pipeline) ==
    RecordDraw(set_pipeline(current_draw_commands, pipeline))

DrawCtx_set_bind_group(index, bind_group, offsets) ==
    RecordDraw(set_bind_group(current_draw_commands, index, bind_group,
                              offsets))

DrawCtx_set_blend_constant(color) ==
    RecordDraw(set_blend_constant(current_draw_commands, color))

DrawCtx_set_index_buffer(buffer, format) ==
    RecordDraw(set_index_buffer(current_draw_commands, buffer, format))

DrawCtx_set_vertex_buffer(slot, buffer) ==
    RecordDraw(set_vertex_buffer(current_draw_commands, slot, buffer))

DrawCtx_set_scissor_rect(x, y, width, height) ==
    RecordDraw(set_scissor_rect(current_draw_commands, x, y, width, height))

DrawCtx_set_viewport(x, y, width, height, min_depth, max_depth) ==
    RecordDraw(set_viewport(current_draw_commands, x, y, width, height,
                            min_depth, max_depth))

DrawCtx_set_stencil_reference(reference) ==
    RecordDraw(set_stencil_reference(current_draw_commands, reference))

DrawCtx_draw(verticies, instances) ==
    RecordDraw(draw(current_draw_commands, verticies, instances))

DrawCtx_insert_debug_marker(label) ==
    RecordDraw(insert_debug_marker(current_draw_commands, label))

DrawCtx_push_debug_group(label) ==
    RecordDraw(push_debug_group(current_draw_commands, label))

DrawCtx_pop_debug_group ==
    RecordDraw(pop_debug_group(current_draw_commands))

DrawCtx_draw_indexed(indices, base_vertex, instances) ==
    RecordDraw(draw_indexed(current_draw_commands, indices, base_vertex,
                            instances))

DrawCtx_draw_indirect(indirect_buffer, indirect_offset) ==
    RecordDraw(draw_indirect(current_draw_commands, indirect_buffer,
                             indirect_offset))

DrawCtx_draw_indexed_indirect(indirect_buffer, indirect_offset) ==
    RecordDraw(draw_indexed_indirect(current_draw_commands, indirect_buffer,
                                     indirect_offset))

DrawCtx_copy_buffer(src, src_offset, dst, dst_offset, size) ==
    RecordTransfer(copy_buffer(current_encoder_commands, src, src_offset,
                               dst, dst_offset, size))

DrawCtx_draw_mesh(mesh, mat) ==
    RecordDraw(draw_mesh(current_draw_commands, mesh, mat))

DrawCtx_draw_mesh_instanced(mesh, mat, instances) ==
    RecordDraw(draw_mesh_instanced(current_draw_commands, mesh, mat,
                                   instances))

DrawCtx_draw_light_mesh(mesh) ==
    RecordDraw(draw_light_mesh(current_draw_commands, mesh))

DrawCtx_draw_light_mesh_instanced(mesh, instances) ==
    RecordDraw(draw_light_mesh_instanced(current_draw_commands, mesh,
                                         instances))

DrawCtx_draw_light_model(model) ==
    RecordDraw(draw_light_model(current_draw_commands, model))

DrawCtx_draw_light_model_instanced(model, instances) ==
    RecordDraw(draw_light_model_instanced(current_draw_commands, model,
                                          instances))

(* a model helper panics when it reaches a mesh whose material the model
   does not have *)
DrawCtx_draw_model_instanced(model, instances) ==
    IF first_bad_material(model) /= 0
    THEN RecordDrawPanic(draw_model_instanced(current_draw_commands, model,
                                              instances))
    ELSE RecordDraw(draw_model_instanced(current_draw_commands, model,
                                         instances))

DrawCtx_draw_model(model) ==
    IF first_bad_material(model) /= 0
    THEN RecordDrawPanic(draw_model(current_draw_commands, model))
    ELSE RecordDraw(draw_model(current_draw_commands, model))

(* DrawCtx::submit(self) *)
DrawCtx_submit(outcomes) ==
    /\ pc = "recording"
    /\ LET r == submit(passes, outcomes)
       IN  /\ passes' = r.passes
           /\ device_log' = device_log \o r.calls
           /\ result' = r.result
           /\ pc' = after_replay(r.result, "submitted")
    /\ UNCHANGED <<ncalls, nrenders, host_vars>>

(* RenderPass::render called on pass i by its owner *)
RenderPass_render(i, outcome) ==
    /\ pc \in {"recording", "rendered"}
    /\ i \in 1..Len(passes)
    /\ LET r == render(passes[i], outcome)
       IN  /\ passes' = [passes EXCEPT ![i] = r.self]
           /\ device_log' = device_log \o r.calls
           /\ result' = r.result
           /\ pc' = after_replay(r.result, "rendered")
    /\ nrenders' = nrenders + 1
    /\ UNCHANGED <<ncalls, host_vars>>

(* command.rs:77, 109: the queue and its channels are pub fields; the owner
   of a pass pushes cmd on the draw channel of pass i itself *)
CommandQueue_push_draw(i, cmd) ==
    /\ pc = "recording"
    /\ i \in 1..Len(passes)
    /\ passes' = [passes EXCEPT ![i].command_queue.draw_commands =
                                    Append(@, cmd)]
    /\ UNCHANGED <<pc, result, device_log, ncalls, nrenders, host_vars>>

(* sys/fs.rs: load_model(filename, ...) on the object file obj *)
fs_load_model(obj) ==
    /\ pc = "recording"
    /\ loaded' = load_model(obj)
    /\ UNCHANGED <<frame_vars, window, nresizes, ctx, event_loop,
                   caller_refs, quad_buffer, npushes>>

(* gfx/geom.rs: QuadBuffer::push_quad(quad) *)
QuadBuffer_push_quad(quad) ==
    /\ quad_buffer' = push_quad(quad_buffer, quad)
    /\ npushes' = npushes + 1
    /\ UNCHANGED <<frame_vars, window, nresizes, ctx, event_loop,
                   caller_refs, loaded>>

(* gfx/geom.rs: QuadBuffer::push_with_xform(quad, xform) *)
QuadBuffer_push_with_xform(quad, xform) ==
    /\ quad_buffer' = push_with_xform(quad_buffer, quad, xform)
    /\ npushes' = npushes + 1
    /\ UNCHANGED <<frame_vars, window, nresizes, ctx, event_loop,
                   caller_refs, loaded>>

(* the caller lets go of its own reference to handle h *)
Caller_drop(h) ==
    /\ h \in caller_refs
    /\ caller_refs' = caller_refs \ {h}
    /\ UNCHANGED <<frame_vars, window, nresizes, ctx, event_loop, asset_vars>>

(* RenderWindow::resize(new_size), called by whoever owns the window *)
RenderWindow_resize(new_size) ==
    /\ window' = resize(window, new_size)
    /\ nresizes' = nresizes + 1
    /\ UNCHANGED <<frame_vars, ctx, event_loop, caller_refs, asset_vars>>

(* eng/app.rs: Radium::start, the callback of the event loop. Between two
   callbacks the loop is idle; a callback runs to its end before the next
   event is looked at. *)

(* mutant: the frame hands draw_frame a context without a pass *)
Radium_redraw_requested_no_pass ==
    /\ pc = "idle"
    /\ event_loop.control_flow /= "Exit"
    /\ ctx' = create_draw_context(window)
    /\ passes' = <<>>
    /\ pc' = "recording"
    /\ result' = NoResult
    /\ device_log' = <<>>
    /\ ncalls' = 0
    /\ event_loop' = [event_loop EXCEPT !.control_flow = "Poll",
                                        !.frames = @ + 1]
    /\ UNCHANGED <<nrenders, window, nresizes, caller_refs, asset_vars>>

(* mutant: the frame goes on with the context of the frame before *)
Radium_redraw_requested_reuses_ctx ==
    /\ pc = "idle"
    /\ event_loop.control_flow /= "Exit"
    /\ passes' = Append(passes, from_draw_ctx(CLEAR_BLACK))
    /\ pc' = "recording"
    /\ result' = NoResult
    /\ device_log' = <<>>
    /\ event_loop' = [event_loop EXCEPT !.control_flow = "Poll",
                                        !.frames = @ + 1]
    /\ UNCHANGED <<ncalls, nrenders, window, nresizes, ctx, caller_refs,
                 asset_vars>>

(* app.rs:64, 94-103: Event::RedrawRequested up to the call of draw_frame:
   a draw context is made from the window and its first pass is begun. The
   recorder is emptied: it holds the device calls of the current frame. *)
Radium_redraw_requested ==
    /\ pc = "idle"
    /\ event_loop.control_flow /= "Exit"
    /\ ctx' = create_draw_context(window)
    /\ passes' = <<RenderPass_new(ctx'.device, ctx'.depth_texture,
                                  CLEAR_BLACK)>>
    /\ pc' = "recording"
    /\ result' = NoResult
    /\ device_log' = <<>>
    /\ ncalls' = 0
    /\ event_loop' = [event_loop EXCEPT !.control_flow = "Poll",
                                        !.frames = @ + 1]
    /\ UNCHANGED <<nrenders, window, nresizes, caller_refs, asset_vars>>

(* app.rs:105-106: draw_frame returned an error: expect panics *)
Radium_draw_frame_error ==
    /\ pc = "recording"
    /\ pc' = "panicked"
    /\ UNCHANGED <<passes, result, device_log, ncalls, nrenders, host_vars>>

(* mutant: every error of submit ends the session *)
Radium_submit_result_exits_on_error ==
    /\ pc \in {"submitted", "failed"}
    /\ pc' = "idle"
    /\ IF result = Err("Lost")
       THEN /\ window' = resize(window, window.size)
            /\ nresizes' = nresizes + 1
            /\ event_loop' = [event_loop EXCEPT !.control_flow = "Exit"]
       ELSE IF ~result.ok
       THEN /\ event_loop' = [event_loop EXCEPT !.control_flow = "Exit"]
            /\ UNCHANGED <<window, nresizes>>
       ELSE UNCHANGED <<window, nresizes, event_loop>>
    /\ UNCHANGED <<passes, result, device_log, ncalls, nrenders, ctx,
                 caller_refs, asset_vars>>

(* app.rs:108-118: what the callback does with the result of submit before
   it returns *)
Radium_submit_result ==
    /\ pc \in {"submitted", "failed"}
    /\ pc' = "idle"
    /\ IF result = Err("Lost")
       THEN /\ window' = resize(window, window.size)
            /\ nresizes' = nresizes + 1
            /\ UNCHANGED event_loop
       ELSE IF result = Err("OutOfMemory")
       THEN /\ event_loop' = [event_loop EXCEPT !.control_flow = "Exit"]
            /\ UNCHANGED <<window, nresizes>>
       ELSE UNCHANGED <<window, nresizes, event_loop>>
    /\ UNCHANGED <<passes, result, device_log, ncalls, nrenders, ctx,
                 caller_refs, asset_vars>>

(* mutant: the engine handles the event whatever the application answers *)
Radium_window_event_always_default(event, status) ==
    /\ pc = "idle"
    /\ event_loop.control_flow /= "Exit"
    /\ LET polled == [event_loop EXCEPT !.control_flow = "Poll",
                                        !.events = @ + 1]
       IN  IF event.kind = "CloseRequested"
           THEN /\ event_loop' = [polled EXCEPT !.control_flow = "Exit"]
                /\ UNCHANGED <<window, nresizes>>
           ELSE IF event.kind = "KeyboardInput" /\ event.virtual_keycode.some
           THEN /\ event_loop' = [polled EXCEPT !.keyboard = @ + 1]
                /\ UNCHANGED <<window, nresizes>>
           ELSE IF event.kind \in {"Resized", "ScaleFactorChanged"}
           THEN /\ window' = resize(window, event.size)
                /\ nresizes' = nresizes + 1
                /\ event_loop' = polled
           ELSE /\ event_loop' = polled
                /\ UNCHANGED <<window, nresizes>>
    /\ UNCHANGED <<frame_vars, ctx, caller_refs, asset_vars>>

(* mutant: a window event is handled while a frame is being recorded *)
Radium_window_event_reentrant(event, status) ==
    /\ pc \in {"idle", "recording"}
    /\ event_loop.control_flow /= "Exit"
    /\ LET polled == [event_loop EXCEPT !.control_flow = "Poll",
                                        !.events = @ + 1]
       IN  IF status = "Processing"
           THEN /\ event_loop' = [polled EXCEPT !.kept = @ + 1]
                /\ UNCHANGED <<window, nresizes>>
           ELSE IF event.kind = "CloseRequested"
           THEN /\ event_loop' = [polled EXCEPT !.control_flow = "Exit"]
                /\ UNCHANGED <<window, nresizes>>
           ELSE IF event.kind = "KeyboardInput" /\ event.virtual_keycode.some
           THEN /\ event_loop' = [polled EXCEPT !.keyboard = @ + 1]
                /\ UNCHANGED <<window, nresizes>>
           ELSE IF event.kind \in {"Resized", "ScaleFactorChanged"}
           THEN /\ window' = resize(window, event.size)
                /\ nresizes' = nresizes + 1
                /\ event_loop' = polled
           ELSE /\ event_loop' = polled
                /\ UNCHANGED <<window, nresizes>>
    /\ UNCHANGED <<frame_vars, ctx, caller_refs, asset_vars>>

(* app.rs:64-93: Event::WindowEvent for the render window; status is what
   the application's handle_window_events returns for it; keyboard counts
   the calls of process_keyboard, kept the events the application answered
   with Processing *)
Radium_window_event(event, status) ==
    /\ pc = "idle"
    /\ event_loop.control_flow /= "Exit"
    /\ LET polled == [event_loop EXCEPT !.control_flow = "Poll",
                                        !.events = @ + 1]
       IN  IF status = "Processing"
           THEN /\ event_loop' = [polled EXCEPT !.kept = @ + 1]
                /\ UNCHANGED <<window, nresizes>>
           ELSE IF event.kind = "CloseRequested"
           THEN /\ event_loop' = [polled EXCEPT !.control_flow = "Exit"]
                /\ UNCHANGED <<window, nresizes>>
           ELSE IF event.kind = "KeyboardInput" /\ event.virtual_keycode.some
           THEN /\ event_loop' = [polled EXCEPT !.keyboard = @ + 1]
                /\ UNCHANGED <<window, nresizes>>
           ELSE IF event.kind \in {"Resized", "ScaleFactorChanged"}
           THEN /\ window' = resize(window, event.size)
                /\ nresizes' = nresizes + 1
                /\ event_loop' = polled
           ELSE /\ event_loop' = polled
                /\ UNCHANGED <<window, nresizes>>
    /\ UNCHANGED <<frame_vars, ctx, caller_refs, asset_vars>>

----------------------------------------------------------------------------
(* The calls the drivers make, with the arguments they are tried with *)

Transfers ==
    { <<"buffer_a", 0, "buffer_b", 64, 128>>,
      <<"buffer_b", 16, "buffer_a", 32, 8>> }

InstanceRanges == {Range(0, 4)}

RecordSetter ==
    \/ \E p \in UserPipelines : DrawCtx_set_pipeline(p)
    \/ \E g \in UserBindGroups, o \in {None, Some(<<256>>)} :
            DrawCtx_set_bind_group(3, g, o)
    \/ DrawCtx_set_blend_constant(WHITE)
    \/ DrawCtx_set_index_buffer("buffer_a", "Uint16")
    \/ DrawCtx_set_vertex_buffer(1, "buffer_b")
    \/ DrawCtx_set_scissor_rect(1, 2, 800, 600)
    \/ DrawCtx_set_viewport(3, 4, 640, 480, 0, 1)
    \/ DrawCtx_set_stencil_reference(7)
    \/ DrawCtx_insert_debug_marker("marker")
    \/ DrawCtx_push_debug_group("group")
    \/ DrawCtx_pop_debug_group

RecordDrawOp ==
    \/ DrawCtx_draw(Range(0, 3), Range(0, 2))
    \/ DrawCtx_draw_indexed(Range(0, 6), 5, Range(1, 3))
    \/ DrawCtx_draw_indirect("buffer_a", 16)
    \/ DrawCtx_draw_indexed_indirect("buffer_b", 32)

RecordCopy ==
    \E t \in Transfers : DrawCtx_copy_buffer(t[1], t[2], t[3], t[4], t[5])

RecordMesh ==
    \/ \E m \in Meshes, mat \in Materials : DrawCtx_draw_mesh(m, mat)
    \/ \E m \in Meshes, mat \in Materials, r \in InstanceRanges :
            DrawCtx_draw_mesh_instanced(m, mat, r)

RecordModel ==
    \/ DrawCtx_draw_model(ThreeMeshModel)
    \/ \E model \in Models, r \in InstanceRanges :
            DrawCtx_draw_model_instanced(model, r)

(* A frame: passes are begun and recorded into, then the context is
   submitted *)
FrameOps == {CLEAR_BLACK, LoadFromMemory}
PassOps == {CLEAR_BLACK, CLEAR_WHITE, LoadFromMemory}
FrameErrors == {"Lost", "OutOfMemory"}

(* what the surface answers during one submit: Ok every time, or Ok until
   the k-th request, which fails with e (no request follows a failed one) *)
SubmitOutcomes(n) ==
    { [i \in 1..n |-> "Ok"] } \cup
    { [i \in 1..n |-> IF i = k THEN e ELSE "Ok"] :
        k \in 1..n, e \in FrameErrors }

Next ==
    \/ /\ Len(passes) < MaxPasses
       /\ \E op \in FrameOps : begin_render_pass(op)
    \/ /\ ncalls < MaxCalls
       /\ \/ DrawCtx_set_pipeline("user_pipeline")
          \/ DrawCtx_draw_indexed(Range(0, 6), 5, Range(1, 3))
          \/ DrawCtx_copy_buffer("buffer_a", 0, "buffer_b", 64, 128)
          \/ DrawCtx_draw_mesh(CubeMesh, Material("mat_bind_group"))
    \/ \E outcomes \in SubmitOutcomes(Len(passes)) :
            DrawCtx_submit(outcomes)

Spec == Init /\ [][Next]_vars

(* One pass: it is begun, recorded into with every recording call, and
   rendered by its owner, possibly more than once *)
NextPass ==
    \/ /\ passes = <<>>
       /\ \E op \in PassOps : begin_render_pass(op)
    \/ /\ ncalls < MaxPassCalls
       /\ (RecordSetter \/ RecordDrawOp \/ RecordCopy \/ RecordMesh
           \/ RecordModel)
    \/ /\ nrenders < MaxRenders
       /\ \E outcome \in AcquireOutcomes : RenderPass_render(1, outcome)

SpecPass == Init /\ [][NextPass]_vars

(* Recording only: passes are begun and every recording call is made, on a
   context that is not submitted yet *)
NextRecord ==
    \/ /\ Len(passes) < MaxRecordPasses
       /\ begin_render_pass(CLEAR_WHITE)
    \/ /\ ncalls < MaxCalls
       /\ (RecordSetter \/ RecordDrawOp \/ RecordCopy \/ RecordMesh
           \/ RecordModel)

SpecRecord == Init /\ [][NextRecord]_vars

(* A frame during which the window is resized: passes are begun and
   recorded into, the window is resized while they wait, the context is
   submitted *)
ResizeSizes ==
    {PhysicalSize(1024, 768), PhysicalSize(800, 600), PhysicalSize(0, 768)}

NextResize ==
    \/ /\ Len(passes) < MaxResizePasses
       /\ \E op \in FrameOps : begin_render_pass(op)
    \/ /\ ncalls < MaxCalls
       /\ passes /= <<>>
       /\ \/ DrawCtx_draw_indexed(Range(0, 6), 5, Range(1, 3))
          \/ DrawCtx_copy_buffer("buffer_a", 0, "buffer_b", 64, 128)
    \/ /\ nresizes < MaxResizes
       /\ pc = "recording"
       /\ passes /= <<>>
       /\ \E new_size \in ResizeSizes : RenderWindow_resize(new_size)
    \/ \E outcomes \in SubmitOutcomes(Len(passes)) :
            DrawCtx_submit(outcomes)

SpecResize == Init /\ [][NextResize]_vars

(* The frame loop: window events and frames follow one another; inside a
   frame the application's draw_frame begins passes and records, then the
   context is submitted and the result handled *)
WindowEvents ==
    { [kind |-> "CloseRequested"], [kind |-> "MouseInput"],
      [kind |-> "KeyboardInput", virtual_keycode |-> Some("Escape")],
      [kind |-> "KeyboardInput", virtual_keycode |-> None],
      [kind |-> "Resized", size |-> PhysicalSize(1024, 768)],
      [kind |-> "Resized", size |-> PhysicalSize(0, 768)],
      [kind |-> "ScaleFactorChanged", size |-> PhysicalSize(640, 480)] }

LoopOutcomes(n) ==
    { [i \in 1..n |-> "Ok"] } \cup
    { [i \in 1..n |-> IF i = k THEN e ELSE "Ok"] :
        k \in 1..n, e \in SurfaceErrors }

InitLoop ==
    /\ passes = <<>>
    /\ pc = "idle"
    /\ result = NoResult
    /\ device_log = <<>>
    /\ ncalls = 0
    /\ nrenders = 0
    /\ window = RenderWindow_new
    /\ nresizes = 0
    /\ ctx = create_draw_context(RenderWindow_new)
    /\ event_loop = [control_flow |-> "Poll", frames |-> 0, events |-> 0,
                     keyboard |-> 0, kept |-> 0]
    /\ caller_refs = CallerHandles
    /\ loaded = NotLoaded
    /\ quad_buffer = QuadBuffer_empty
    /\ npushes = 0

NextLoop ==
    \/ /\ event_loop.events < MaxEvents
       /\ \E event \in WindowEvents, status \in {"Processing", "Done"} :
            Radium_window_event(event, status)
    \/ /\ event_loop.frames < MaxFrames
       /\ Radium_redraw_requested
    \/ /\ Len(passes) < MaxLoopPasses
       /\ begin_render_pass(LoadFromMemory)
    \/ /\ ncalls < MaxLoopCalls
       /\ \/ DrawCtx_draw_indexed(Range(0, 6), 5, Range(1, 3))
          \/ DrawCtx_copy_buffer("buffer_a", 0, "buffer_b", 64, 128)
    \/ Radium_draw_frame_error
    \/ \E outcomes \in LoopOutcomes(Len(passes)) : DrawCtx_submit(outcomes)
    \/ Radium_submit_result

SpecLoop == InitLoop /\ [][NextLoop]_vars

(* Ownership: one pass is recorded into with handles the caller holds, the
   caller drops references of its own while it records, and the pass is
   rendered *)
NextOwn ==
    \/ /\ passes = <<>>
       /\ begin_render_pass(CLEAR_BLACK)
    \/ /\ ncalls < MaxOwnCalls
       /\ \/ \E p \in UserPipelines \cap caller_refs :
                DrawCtx_set_pipeline(p)
          \/ \E g \in UserBindGroups \cap caller_refs :
                DrawCtx_set_bind_group(3, g, None)
          \/ \E b \in UserBuffers \cap caller_refs :
                \/ DrawCtx_set_vertex_buffer(1, b)
                \/ DrawCtx_draw_indirect(b, 16)
          \/ \E t \in Transfers :
                /\ {t[1], t[3]} \subseteq caller_refs
                /\ DrawCtx_copy_buffer(t[1], t[2], t[3], t[4], t[5])
    \/ /\ pc = "recording"
       /\ \E h \in caller_refs : Caller_drop(h)
    \/ /\ nrenders < MaxOwnRenders
       /\ \E outcome \in {"Ok", "Lost"} : RenderPass_render(1, outcome)

SpecOwn == Init /\ [][NextOwn]_vars

(* Lights: passes are begun and recorded into with the light helpers, and
   with a setter that puts other commands between theirs *)
RecordLight ==
    \/ \E m \in Meshes : DrawCtx_draw_light_mesh(m)
    \/ \E m \in Meshes, r \in InstanceRanges :
            DrawCtx_draw_light_mesh_instanced(m, r)
    \/ \E model \in Models : DrawCtx_draw_light_model(model)
    \/ \E model \in Models, r \in InstanceRanges :
            DrawCtx_draw_light_model_instanced(model, r)

NextLight ==
    \/ /\ Len(passes) < MaxLightPasses
       /\ begin_render_pass(LoadFromMemory)
    \/ /\ ncalls < MaxLightCalls
       /\ (RecordLight \/ DrawCtx_set_stencil_reference(7))

SpecLight == Init /\ [][NextLight]_vars

(* Render bundles: one pass is recorded into with every call of DrawCtx,
   its owner may push an ExecuteBundles command on the queue directly, and
   the pass is rendered *)
Bundles(cmds) ==
    Cardinality({k \in 1..Len(cmds) : cmds[k].tag = "ExecuteBundles"})

NextBundles ==
    \/ /\ passes = <<>>
       /\ begin_render_pass(CLEAR_BLACK)
    \/ /\ ncalls < MaxBundleCalls
       /\ (RecordSetter \/ RecordDrawOp \/ RecordCopy \/ RecordMesh
           \/ RecordModel \/ RecordLight)
    \/ /\ passes /= <<>>
       /\ Bundles(passes[1].command_queue.draw_commands) < MaxBundles
       /\ CommandQueue_push_draw(1, ExecuteBundles)
    \/ /\ nrenders = 0
       /\ passes /= <<>>
       /\ \E outcome \in {"Ok", "Lost"} : RenderPass_render(1, outcome)

SpecBundles == Init /\ [][NextBundles]_vars

(* The window alone: it is resized again and again, to sizes with and
   without a zero dimension *)
WindowSizes ==
    {PhysicalSize(1024, 768), PhysicalSize(640, 480), PhysicalSize(800, 600),
     PhysicalSize(1, 1), PhysicalSize(0, 768), PhysicalSize(1024, 0),
     PhysicalSize(0, 0)}

NextWindow ==
    /\ nresizes < MaxWindowResizes
    /\ \E new_size \in WindowSizes : RenderWindow_resize(new_size)

SpecWindow == Init /\ [][NextWindow]_vars

(* Loading: an object file is loaded into a Model and the model is drawn
   into a pass *)
NextLoad ==
    \/ /\ passes = <<>>
       /\ begin_render_pass(CLEAR_BLACK)
    \/ /\ loaded = NotLoaded
       /\ \/ fs_load_model(ObjFile(FALSE, TRUE, <<>>, <<>>))
          \/ fs_load_model(ObjFile(TRUE, FALSE, <<>>, <<>>))
          \/ \E mats \in SeqsUpTo(MtlEntries, MaxObjMaterials) :
                \E models \in SeqsUpTo(ObjModels(Len(mats)), MaxObjMeshes) :
                    fs_load_model(ObjFile(TRUE, TRUE, mats, models))
    \/ /\ ncalls < MaxLoadCalls
       /\ loaded.result.ok
       /\ DrawCtx_draw_model(loaded.model)

SpecLoad == Init /\ [][NextLoad]_vars

(* Quads: quads are pushed on an empty QuadBuffer, as they are and
   transformed *)
Quads == {Quad(0, 0, 2, 2), Quad(4, 2, 2, 4)}
Xforms == {Identity4, Translation4(1, 2, 0), Scale4(2)}

NextQuads ==
    /\ npushes < MaxQuads
    /\ \/ \E quad \in Quads : QuadBuffer_push_quad(quad)
       \/ \E quad \in Quads, xform \in Xforms :
            QuadBuffer_push_with_xform(quad, xform)

SpecQuads == Init /\ [][NextQuads]_vars

----------------------------------------------------------------------------
(* Reading the recorder *)

(* the calls a step appended to the recorder *)
NewCalls == SubSeq(device_log', Len(device_log) + 1, Len(device_log'))

IsAcquire(c) == c.call = "get_current_texture"
IsCopy(c) == c.call = "copy_buffer_to_buffer"
IsBegin(c) == c.call = "begin_render_pass"
IsEnd(c) == c.call = "end_render_pass"
IsQueueSubmit(c) == c.call = "queue_submit"
IsPresent(c) == c.call = "present"
IsCreateEncoder(c) == c.call = "create_command_encoder"

ScopeCallNames ==
    {"set_pipeline", "set_bind_group", "set_blend_constant",
     "set_index_buffer", "set_vertex_buffer", "set_scissor_rect",
     "set_viewport", "set_stencil_reference", "draw", "insert_debug_marker",
     "push_debug_group", "pop_debug_group", "draw_indexed", "draw_indirect",
     "draw_indexed_indirect"}

IsScopeCall(c) == c.call \in ScopeCallNames

Count(log, Is(_)) == Cardinality({i \in 1..Len(log) : Is(log[i])})

Positions(log, Is(_)) == {i \in 1..Len(log) : Is(log[i])}

(* the k-th render's calls in log: from the k-th get_current_texture up to
   the next one *)
SegmentStart(log, k) ==
    LET acquires == Positions(log, IsAcquire)
    IN  CHOOSE i \in acquires :
            Cardinality({j \in acquires : j <= i}) = k

Segment(log, k) ==
    LET acquires == Positions(log, IsAcquire)
        first == CHOOSE i \in acquires :
                    Cardinality({j \in acquires : j <= i}) = k
        later == {j \in acquires : j > first}
        last == IF later = {} THEN Len(log)
                ELSE (CHOOSE j \in later : \A l \in later : j <= l) - 1
    IN  SubSeq(log, first, last)

(* the calls made between begin_render_pass and end_render_pass *)
InScope(log) ==
    LET b == CHOOSE i \in Positions(log, IsBegin) : TRUE
        e == CHOOSE i \in Positions(log, IsEnd) : TRUE
    IN  SubSeq(log, b + 1, e - 1)

(* The device operation that corresponds to a Command: the variant's own
   call, with the Command's arguments (absent dynamic offsets are the empty
   slice) *)
CallOfVariant ==
    [SetPipeline |-> "set_pipeline", SetBindGroup |-> "set_bind_group",
     SetBlendConstant |-> "set_blend_constant",
     SetIndexBuffer |-> "set_index_buffer",
     SetVertexBuffer |-> "set_vertex_buffer",
     SetScissorRect |-> "set_scissor_rect", SetViewPort |-> "set_viewport",
     SetStencilReference |-> "set_stencil_reference", Draw |-> "draw",
     InsertDebugMarker |-> "insert_debug_marker",
     PushDebugGroup |-> "push_debug_group",
     PopDebugGroup |-> "pop_debug_group", DrawIndexed |-> "draw_indexed",
     DrawIndirect |-> "draw_indirect",
     DrawIndexedIndirect |-> "draw_indexed_indirect",
     CopyBufferToBuffer |-> "copy_buffer_to_buffer"]

Corresponds(c, cmd) ==
    /\ c.call = CallOfVariant[cmd.tag]
    /\ DOMAIN c = ((DOMAIN cmd) \ {"tag"}) \cup {"call"}
    /\ \A f \in (DOMAIN cmd) \ {"tag"} :
          IF f = "offsets"
          THEN c[f] = (IF cmd[f].some THEN cmd[f].value ELSE <<>>)
          ELSE c[f] = cmd[f]

CorrespondInOrder(calls, cmds) ==
    /\ Len(calls) = Len(cmds)
    /\ \A i \in 1..Len(cmds) : Corresponds(calls[i], cmds[i])

(* a step in which the owner's render of pass 1 returned Ok *)
RenderedOk ==
    /\ nrenders' = nrenders + 1
    /\ result'.ok

----------------------------------------------------------------------------
(* C1: the N draw Commands of a pass's queue are replayed as exactly N
   device operations inside the render-pass scope, the i-th operation being
   the one of the i-th Command, with its arguments: nothing is reordered,
   merged, dropped or duplicated. *)
C1_OrderPreserved ==
    [][RenderedOk =>
        /\ Count(NewCalls, IsBegin) = 1
        /\ Count(NewCalls, IsEnd) = 1
        /\ Count(NewCalls, IsScopeCall) =
              Len(passes[1].command_queue.draw_commands)
        /\ CorrespondInOrder(InScope(NewCalls),
                             passes[1].command_queue.draw_commands)]_vars

(* a pass with two different draw commands, queued through two calls, was
   rendered *)
C1_Witness ==
    /\ pc = "rendered"
    /\ ncalls = 2
    /\ \E i \in 1..Len(device_log) :
          /\ i + 1 <= Len(device_log)
          /\ device_log[i].call = "set_scissor_rect"
          /\ device_log[i + 1].call = "draw_indexed"

(* C2: every TransferCommand of the pass is replayed on the encoder before
   the render-pass scope is opened, in insertion order, however copy_buffer
   and draw calls were interleaved while recording. *)
C2_TransfersBeforeScope ==
    [][RenderedOk =>
        /\ CorrespondInOrder(SelectSeq(NewCalls, IsCopy),
                             passes[1].command_queue.encoder_commands)
        /\ \A i \in Positions(NewCalls, IsCopy) :
           \A b \in Positions(NewCalls, IsBegin) : i < b]_vars

(* a pass that held a transfer and a draw command was rendered *)
C2_Witness ==
    /\ pc = "rendered"
    /\ Count(device_log, IsCopy) >= 1
    /\ Count(device_log, IsScopeCall) >= 1

(* C3: a recording call changes only the queue of the last pass begun; the
   earlier passes keep their queues, and a pass is begun with an empty queue
   while the passes before it keep theirs. *)
C3_PassIsolation ==
    [][/\ (ncalls' = ncalls + 1 /\ passes /= <<>>) =>
            /\ Len(passes') = Len(passes)
            /\ \A i \in 1..(Len(passes) - 1) : passes'[i] = passes[i]
            /\ passes'[Len(passes)].command_queue /=
                  passes[Len(passes)].command_queue
            /\ passes'[Len(passes)].op = passes[Len(passes)].op
       /\ (Len(passes') /= Len(passes)) =>
            /\ Len(passes') = Len(passes) + 1
            /\ \A i \in 1..Len(passes) : passes'[i] = passes[i]
            /\ passes'[Len(passes')].command_queue.draw_commands = <<>>
            /\ passes'[Len(passes')].command_queue.encoder_commands = <<>>
      ]_vars

(* one command was recorded before the second pass was begun and one after:
   each sits in its own pass *)
C3_Witness ==
    /\ Len(passes) = 2
    /\ ncalls = 2
    /\ Len(passes[1].command_queue.draw_commands) = 1
    /\ Len(passes[2].command_queue.encoder_commands) = 1

(* C4: a Clear(color) pass opens its render pass clearing the color
   attachment to that color and the depth attachment to 1.0; a
   LoadFromMemory pass loads both; the two load kinds are never mixed. *)
C4_ClearVsLoad ==
    \A i \in Positions(device_log, IsBegin) :
        LET c == device_log[i]
            op == passes[1].op
        IN  /\ op.kind = "Clear" =>
                /\ c.color_load = [load |-> "Clear", color |-> op.color]
                /\ c.depth_load = [load |-> "Clear", depth |-> 1]
            /\ op.kind = "LoadFromMemory" =>
                /\ c.color_load = [load |-> "Load"]
                /\ c.depth_load = [load |-> "Load"]
            /\ c.color_load.load = c.depth_load.load

(* a pass that clears to white was rendered *)
C4_Witness ==
    /\ pc = "rendered"
    /\ passes[1].op = Clear(WHITE)
    /\ Count(device_log, IsBegin) >= 1

(* a step in which the context was submitted *)
Submitted ==
    /\ pc = "recording"
    /\ pc' \in {"submitted", "failed"}

(* C5: with three passes of which the second fails to acquire its texture,
   submit returns that error, nothing is replayed after the failed request
   and the third pass keeps its queue. *)
C5_FailureShortCircuit ==
    [][(/\ Submitted
        /\ Len(passes) = 3
        /\ Count(NewCalls, IsAcquire) >= 2
        /\ NewCalls[SegmentStart(NewCalls, 2)].outcome /= "Ok") =>
        /\ result' = [ok |-> FALSE,
                      err |-> NewCalls[SegmentStart(NewCalls, 2)].outcome]
        /\ Count(NewCalls, IsAcquire) = 2
        /\ SegmentStart(NewCalls, 2) = Len(NewCalls)
        /\ passes'[3] = passes[3]]_vars

(* the second of three passes failed and the third still holds a command *)
C5_Witness ==
    /\ pc = "failed"
    /\ Len(passes) = 3
    /\ Count(device_log, IsAcquire) = 2
    /\ passes[3].command_queue.draw_commands /= <<>>

(* C6: one submit acquires the texture once, creates one encoder, submits
   once and presents once, however many passes the context holds. *)
C6_OneEncoderPerSubmit ==
    (pc = "submitted" /\ Len(passes) >= 1) =>
        /\ Count(device_log, IsAcquire) = 1
        /\ Count(device_log, IsCreateEncoder) = 1
        /\ Count(device_log, IsQueueSubmit) = 1
        /\ Count(device_log, IsPresent) = 1

(* C7: when submit fails at pass k, each pass before k was replayed in full,
   its command buffer submitted and its queue cleared; the passes from k on
   are as they were. *)
C7_PartialFrame ==
    [][(Submitted /\ ~result'.ok) =>
        LET new == NewCalls
            k == Count(new, IsAcquire)
        IN  \A j \in 1..Len(passes) :
              IF j < k
              THEN LET seg == Segment(new, j)
                   IN  /\ passes'[j].command_queue.draw_commands = <<>>
                       /\ passes'[j].command_queue.encoder_commands = <<>>
                       /\ CorrespondInOrder(SelectSeq(seg, IsCopy),
                            passes[j].command_queue.encoder_commands)
                       /\ CorrespondInOrder(SelectSeq(seg, IsScopeCall),
                            passes[j].command_queue.draw_commands)
                       /\ Count(seg, IsQueueSubmit) = 1
              ELSE passes'[j] = passes[j]]_vars

(* submit failed after a pass with commands was replayed and submitted, and
   a later pass still holds its commands *)
C7_Witness ==
    /\ pc = "failed"
    /\ Count(device_log, IsQueueSubmit) >= 1
    /\ Count(device_log, IsScopeCall) >= 1
    /\ \E j \in 1..Len(passes) :
          passes[j].command_queue.encoder_commands /= <<>>

(* C8: after render returned Ok both channels of the pass's queue are
   empty. *)
C8_QueueEmptyAfterRender ==
    pc = "rendered" =>
        /\ passes[1].command_queue.draw_commands = <<>>
        /\ passes[1].command_queue.encoder_commands = <<>>

(* a pass that held a transfer and draw commands was rendered *)
C8_Witness ==
    /\ pc = "rendered"
    /\ nrenders = 1
    /\ Count(device_log, IsCopy) = 1
    /\ Count(device_log, IsScopeCall) = 7

(* C9: rendering a pass again after a render that returned Ok replays no
   transfer and no draw command, returns Ok again and leaves the queue
   empty, however often it is repeated. *)
C9_RenderAgainIsEmpty ==
    [][(pc = "rendered" /\ RenderedOk) =>
        /\ Count(NewCalls, IsCopy) = 0
        /\ Count(NewCalls, IsScopeCall) = 0
        /\ Count(NewCalls, IsBegin) = 1
        /\ result' = result
        /\ passes' = passes
        /\ passes'[1].command_queue = CommandQueue_new]_vars

(* a pass that held commands was rendered three times *)
C9_Witness ==
    /\ pc = "rendered"
    /\ nrenders = 3
    /\ Count(device_log, IsScopeCall) >= 1
    /\ Count(device_log, IsBegin) = 3

(* C10: draw_mesh_instanced appends SetPipeline(default pipeline),
   SetVertexBuffer(0, vert_buff), SetIndexBuffer(index_buff, Uint32),
   SetBindGroup(0, material), SetBindGroup(1, camera), SetBindGroup(2,
   light), DrawIndexed(0..num_elements, 0, instances), in that order, and
   draw_mesh is draw_mesh_instanced with instances 0..1. *)
SevenCommands(mesh, mat, instances) ==
    << [tag |-> "SetPipeline", pipeline |-> "render_pipeline"],
       [tag |-> "SetVertexBuffer", slot |-> 0, buffer |-> mesh.vert_buff],
       [tag |-> "SetIndexBuffer", buffer |-> mesh.index_buff,
        format |-> "Uint32"],
       [tag |-> "SetBindGroup", index |-> 0, bind_group |-> mat.bind_group,
        offsets |-> None],
       [tag |-> "SetBindGroup", index |-> 1,
        bind_group |-> "camera_bind_group", offsets |-> None],
       [tag |-> "SetBindGroup", index |-> 2,
        bind_group |-> "light_bind_group", offsets |-> None],
       [tag |-> "DrawIndexed",
        indices |-> [start |-> 0, end |-> mesh.num_elements],
        base_vertex |-> 0, instances |-> instances] >>

C10_DrawMeshSequence ==
    [][passes /= <<>> =>
        \A m \in Meshes, mat \in Materials :
          /\ \A r \in InstanceRanges :
                DrawCtx_draw_mesh_instanced(m, mat, r) =>
                    passes'[1].command_queue.draw_commands =
                        passes[1].command_queue.draw_commands
                        \o SevenCommands(m, mat, r)
          /\ DrawCtx_draw_mesh(m, mat) =>
                passes'[1].command_queue.draw_commands =
                    passes[1].command_queue.draw_commands
                    \o SevenCommands(m, mat, [start |-> 0, end |-> 1])]_vars

(* draw_mesh on the 36-element mesh was the only call recorded *)
C10_Witness ==
    /\ pc = "recording"
    /\ ncalls = 1
    /\ Len(passes) = 1
    /\ Len(passes[1].command_queue.draw_commands) = 7
    /\ passes[1].command_queue.draw_commands[7].indices.end = 36
    /\ passes[1].command_queue.draw_commands[7].instances.end = 1

----------------------------------------------------------------------------
(* what a step added at the end of the two channels of the current pass *)
CurrentDraws == passes[Len(passes)].command_queue.draw_commands
CurrentDrawsAfter == passes'[Len(passes)].command_queue.draw_commands
AddedDraws == SubSeq(CurrentDrawsAfter, Len(CurrentDraws) + 1,
                     Len(CurrentDrawsAfter))
CurrentTransfers == passes[Len(passes)].command_queue.encoder_commands
CurrentTransfersAfter == passes'[Len(passes)].command_queue.encoder_commands
AddedTransfers == SubSeq(CurrentTransfersAfter, Len(CurrentTransfers) + 1,
                         Len(CurrentTransfersAfter))

(* a sequence without its pipeline selections *)
WithoutPipeline(cmds) == SelectSeq(cmds, LAMBDA c : c.tag /= "SetPipeline")

(* the i-th group of six of a sequence *)
GroupOfSix(cmds, i) == SubSeq(cmds, 6 * (i - 1) + 1, 6 * i)

(* g draws mesh with the material mat and the instance range r: vertex
   buffer in slot 0, index buffer, three bind groups of which the first is
   the material's, one indexed draw of all the mesh's elements *)
IsMeshGroup(g, mesh, mat, r) ==
    /\ Len(g) = 6
    /\ g[1] = [tag |-> "SetVertexBuffer", slot |-> 0,
               buffer |-> mesh.vert_buff]
    /\ g[2].tag = "SetIndexBuffer" /\ g[2].buffer = mesh.index_buff
    /\ \A k \in 3..5 : g[k].tag = "SetBindGroup"
    /\ g[3].bind_group = mat.bind_group
    /\ g[6] = [tag |-> "DrawIndexed",
               indices |-> [start |-> 0, end |-> mesh.num_elements],
               base_vertex |-> 0, instances |-> r]

ValidModels == { m \in Models : \A i \in 1..Len(m.meshes) :
                    m.meshes[i].material < Len(m.materials) }

(* C11: draw_model_instanced(model, R) on a model with M meshes adds, apart
   from the pipeline selection, exactly M groups, the i-th one drawing
   model.meshes[i] with the material model.materials[mesh.material] and the
   instance range R. *)
C11_ModelExpansion ==
    [][passes /= <<>> =>
        \A model \in ValidModels, r \in InstanceRanges :
            DrawCtx_draw_model_instanced(model, r) =>
                LET groups == WithoutPipeline(AddedDraws)
                    M == Len(model.meshes)
                IN  /\ Len(CurrentDrawsAfter) >= Len(CurrentDraws)
                    /\ SubSeq(CurrentDrawsAfter, 1, Len(CurrentDraws))
                          = CurrentDraws
                    /\ Len(groups) = 6 * M
                    /\ \A i \in 1..M :
                          IsMeshGroup(GroupOfSix(groups, i),
                              model.meshes[i],
                              model.materials[model.meshes[i].material + 1],
                              r)]_vars

(* the three-mesh model was drawn with the range 0..4: the second group
   binds the second material and draws the 12 elements of the second mesh *)
C11_Witness ==
    /\ pc = "recording"
    /\ ncalls = 1
    /\ passes /= <<>>
    /\ Len(CurrentDraws) = 19
    /\ CurrentDraws[10].bind_group = "lamp_bind_group"
    /\ CurrentDraws[13].indices.end = 12
    /\ CurrentDraws[13].instances = [start |-> 0, end |-> 4]
    /\ CurrentDraws[19].indices.end = 6

(* the step put cmd, and nothing else, at the end of the draw channel of
   the current pass *)
AppendsOne(cmd) ==
    /\ Len(CurrentDrawsAfter) = Len(CurrentDraws) + 1
    /\ \A k \in 1..Len(CurrentDraws) : CurrentDrawsAfter[k] = CurrentDraws[k]
    /\ CurrentDrawsAfter[Len(CurrentDrawsAfter)] = cmd

(* C12: each primitive setter and each primitive draw op appends exactly
   one command of the matching variant, carrying the call's arguments, at
   the end of the draw queue of the current pass; the queue grows by one
   and its earlier entries are unchanged. *)
C12_OneCommandPerCall ==
    [][passes /= <<>> =>
        /\ DrawCtx_set_pipeline("user_pipeline") =>
              AppendsOne([tag |-> "SetPipeline",
                          pipeline |-> "user_pipeline"])
        /\ \A o \in {None, Some(<<256>>)} :
              DrawCtx_set_bind_group(3, "user_bind_group", o) =>
                AppendsOne([tag |-> "SetBindGroup", index |-> 3,
                            bind_group |-> "user_bind_group",
                            offsets |-> o])
        /\ DrawCtx_set_blend_constant(WHITE) =>
              AppendsOne([tag |-> "SetBlendConstant", color |-> WHITE])
        /\ DrawCtx_set_index_buffer("buffer_a", "Uint16") =>
              AppendsOne([tag |-> "SetIndexBuffer", buffer |-> "buffer_a",
                          format |-> "Uint16"])
        /\ DrawCtx_set_vertex_buffer(1, "buffer_b") =>
              AppendsOne([tag |-> "SetVertexBuffer", slot |-> 1,
                          buffer |-> "buffer_b"])
        /\ DrawCtx_set_scissor_rect(1, 2, 800, 600) =>
              AppendsOne([tag |-> "SetScissorRect", x |-> 1, y |-> 2,
                          width |-> 800, height |-> 600])
        /\ DrawCtx_set_viewport(3, 4, 640, 480, 0, 1) =>
              AppendsOne([tag |-> "SetViewPort", x |-> 3, y |-> 4,
                          w |-> 640, h |-> 480, min_depth |-> 0,
                          max_depth |-> 1])
        /\ DrawCtx_set_stencil_reference(7) =>
              AppendsOne([tag |-> "SetStencilReference", reference |-> 7])
        /\ DrawCtx_insert_debug_marker("marker") =>
              AppendsOne([tag |-> "InsertDebugMarker", label |-> "marker"])
        /\ DrawCtx_push_debug_group("group") =>
              AppendsOne([tag |-> "PushDebugGroup", label |-> "group"])
        /\ DrawCtx_pop_debug_group =>
              AppendsOne([tag |-> "PopDebugGroup"])
        /\ DrawCtx_draw(Range(0, 3), Range(0, 2)) =>
              AppendsOne([tag |-> "Draw",
                          vertices |-> [start |-> 0, end |-> 3],
                          instances |-> [start |-> 0, end |-> 2]])
        /\ DrawCtx_draw_indexed(Range(0, 6), 5, Range(1, 3)) =>
              AppendsOne([tag |-> "DrawIndexed",
                          indices |-> [start |-> 0, end |-> 6],
                          base_vertex |-> 5,
                          instances |-> [start |-> 1, end |-> 3]])
        /\ DrawCtx_draw_indirect("buffer_a", 16) =>
              AppendsOne([tag |-> "DrawIndirect",
                          indirect_buffer |-> "buffer_a",
                          indirect_offset |-> 16])
        /\ DrawCtx_draw_indexed_indirect("buffer_b", 32) =>
              AppendsOne([tag |-> "DrawIndexedIndirect",
                          indirect_buffer |-> "buffer_b",
                          indirect_offset |-> 32])]_vars

(* draw_indirect was called after another command in the second pass: the
   queue of that pass holds the two, the new one last *)
C12_Witness ==
    /\ pc = "recording"
    /\ Len(passes) = 2
    /\ ncalls = 2
    /\ Len(CurrentDraws) = 2
    /\ CurrentDraws[1].tag = "SetViewPort"
    /\ CurrentDraws[2] = [tag |-> "DrawIndirect",
                          indirect_buffer |-> "buffer_a",
                          indirect_offset |-> 16]

(* C13: recording is deferred: as long as the context has not been
   submitted (it is recording, or a recording call failed fast) no device
   operation has happened and no result has been produced, whatever passes
   were begun and whatever setters, draw ops, transfers and helpers were
   called. *)
C13_RecordingIsDeferred ==
    pc \in {"recording", "panicked"} =>
        /\ device_log = <<>>
        /\ result = NoResult

(* two passes were begun; a transfer and a whole model were recorded; the
   recorder is still empty *)
C13_Witness ==
    /\ pc = "recording"
    /\ Len(passes) = 2
    /\ ncalls = 2
    /\ \E i \in 1..2 : Len(passes[i].command_queue.encoder_commands) = 1
    /\ \E i \in 1..2 : Len(passes[i].command_queue.draw_commands) = 19
    /\ device_log = <<>>

(* C14: copy_buffer(src, srcOffset, dst, dstOffset, size) appends exactly
   one CopyBufferToBuffer with those five values to the transfer channel of
   the current pass; the draw channel of that pass and both channels of
   every other pass are unchanged. *)
C14_CopyBufferAppendsTransfer ==
    [][passes /= <<>> =>
        \A t \in Transfers :
            DrawCtx_copy_buffer(t[1], t[2], t[3], t[4], t[5]) =>
                /\ Len(passes') = Len(passes)
                /\ CurrentTransfersAfter =
                      CurrentTransfers \o
                      << [tag |-> "CopyBufferToBuffer",
                          src |-> t[1], src_offset |-> t[2],
                          dst |-> t[3], dst_offset |-> t[4],
                          copy_size |-> t[5]] >>
                /\ CurrentDrawsAfter = CurrentDraws
                /\ \A i \in 1..(Len(passes) - 1) :
                      passes'[i].command_queue = passes[i].command_queue
      ]_vars

(* the first pass holds a draw command; copy_buffer was then called in the
   second pass, which holds the transfer and no draw command *)
C14_Witness ==
    /\ pc = "recording"
    /\ Len(passes) = 2
    /\ ncalls = 2
    /\ Len(passes[1].command_queue.draw_commands) = 1
    /\ passes[1].command_queue.encoder_commands = <<>>
    /\ passes[2].command_queue.draw_commands = <<>>
    /\ passes[2].command_queue.encoder_commands =
          << [tag |-> "CopyBufferToBuffer", src |-> "buffer_b",
              src_offset |-> 16, dst |-> "buffer_a", dst_offset |-> 32,
              copy_size |-> 8] >>

(* a recording call of any kind *)
RecordingCall ==
    RecordSetter \/ RecordDrawOp \/ RecordCopy \/ RecordMesh \/ RecordModel

(* C15: a draw operation (setter, draw op, copy_buffer or helper) called on
   a context on which no pass was ever begun fails fast and records no
   command anywhere; nothing can be recorded or begun afterwards. *)
C15_NoPassFailsFast ==
    [][/\ (passes = <<>> /\ RecordingCall) =>
            /\ pc' = "panicked"
            /\ passes' = <<>>
            /\ device_log' = device_log
       /\ (pc = "panicked") => passes' = passes
      ]_vars

(* the first thing done with the context was a draw operation *)
C15_Witness ==
    /\ pc = "panicked"
    /\ passes = <<>>
    /\ ncalls = 1
    /\ device_log = <<>>

(* C16: the pass list is append-only until submit: begin_render_pass(op)
   adds exactly one pass at the end, with an empty CommandQueue and the
   given op, and that pass is the current one; while the context is being
   recorded no step removes, reorders or replaces a pass, so the number of
   passes never decreases. *)
C16_PassListAppendOnly ==
    [][pc = "recording" =>
        /\ \A op \in FrameOps :
              begin_render_pass(op) =>
                /\ Len(passes') = Len(passes) + 1
                /\ passes'[Len(passes')].op = op
                /\ passes'[Len(passes')].command_queue =
                      [draw_commands |-> <<>>, encoder_commands |-> <<>>]
                /\ current_pass_mut(passes') = Len(passes')
                /\ \A i \in 1..Len(passes) : passes'[i] = passes[i]
        /\ Len(passes') >= Len(passes)
        /\ \A i \in 1..Len(passes) :
              /\ passes'[i].op = passes[i].op
              /\ passes'[i].surface = passes[i].surface
              /\ passes'[i].depth_texture = passes[i].depth_texture
      ]_vars

(* three passes were begun, the second loading and the others clearing; the
   first already holds commands, the one begun last is empty *)
C16_Witness ==
    /\ pc = "recording"
    /\ Len(passes) = 3
    /\ passes[1].op = CLEAR_BLACK
    /\ passes[2].op = LoadFromMemory
    /\ passes[3].op = CLEAR_BLACK
    /\ Len(passes[1].command_queue.draw_commands) = 7
    /\ passes[3].command_queue = CommandQueue_new

(* a is a prefix of b *)
IsPrefix(a, b) ==
    /\ Len(a) <= Len(b)
    /\ \A k \in 1..Len(a) : b[k] = a[k]

(* the step kept what pass i held in both channels, possibly adding to it *)
QueueExtended(i) ==
    /\ IsPrefix(passes[i].command_queue.draw_commands,
                passes'[i].command_queue.draw_commands)
    /\ IsPrefix(passes[i].command_queue.encoder_commands,
                passes'[i].command_queue.encoder_commands)

(* C17: command queues are append-only until replay: after every recording
   call each channel of each pass starts with what it held before; a step
   after which some channel no longer starts with its earlier contents is a
   render that returned Ok, and it leaves both channels empty. *)
C17_QueuesAppendOnly ==
    [][\A i \in 1..Len(passes) :
        /\ ncalls' /= ncalls => QueueExtended(i)
        /\ ~QueueExtended(i) =>
              /\ nrenders' = nrenders + 1
              /\ result' = Ok
              /\ passes'[i].command_queue =
                    [draw_commands |-> <<>>, encoder_commands |-> <<>>]
      ]_vars

(* two recording calls filled the draw channel of the pass one after the
   other, then a render returned Ok and emptied it *)
C17_Witness ==
    /\ pc = "rendered"
    /\ result = Ok
    /\ ncalls = 2
    /\ nrenders = 1
    /\ Len(passes) = 1
    /\ passes[1].command_queue = CommandQueue_new
    /\ Count(device_log, IsScopeCall) = 2

(* the calls of seg are those of a replay of pass p: its transfers, one
   render pass opened with the load op of p, its draw commands *)
IsReplayOf(seg, p) ==
    /\ CorrespondInOrder(SelectSeq(seg, IsCopy),
                         p.command_queue.encoder_commands)
    /\ Count(seg, IsBegin) = 1
    /\ \A k \in 1..Len(seg) :
          IsBegin(seg[k]) =>
              seg[k].color_load.load =
                  (IF p.op.kind = "Clear" THEN "Clear" ELSE "Load")
    /\ CorrespondInOrder(SelectSeq(seg, IsScopeCall),
                         p.command_queue.draw_commands)
    /\ Count(seg, IsEnd) = 1

(* C18: submit renders the passes in creation order: the device operations
   of one submit fall into consecutive runs, one per rendered pass, and the
   j-th run is the replay of the j-th pass created, so that every operation
   of an earlier pass precedes every operation of a later one. *)
C18_SubmitInCreationOrder ==
    [][Submitted =>
        LET new == NewCalls
            k == Count(new, IsAcquire)
            rendered == IF result'.ok THEN k ELSE k - 1
        IN  /\ result'.ok => k = Len(passes)
            /\ \A j \in 1..rendered : IsReplayOf(Segment(new, j), passes[j])
      ]_vars

(* a loading pass with a draw command and a clearing pass with a transfer
   were submitted: the draw is in the first run, the transfer in the
   second *)
C18_Witness ==
    /\ pc = "submitted"
    /\ Len(passes) = 2
    /\ passes[1].op = LoadFromMemory
    /\ passes[2].op = CLEAR_BLACK
    /\ Count(device_log, IsAcquire) = 2
    /\ Count(Segment(device_log, 1), IsScopeCall) = 1
    /\ Count(Segment(device_log, 1), IsCopy) = 0
    /\ Count(Segment(device_log, 2), IsCopy) = 1

(* C19: a pass is replayed with the depth texture the context held when
   the pass was created: a resize that gives the window a new depth texture
   leaves the handle of every pass already begun in place (a held handle
   is a counted reference, so the old texture stays alive), and at submit
   the depth attachment of each render pass is the handle of its pass, not
   the window's. *)
C19_DepthTextureSnapshot ==
    [][/\ nresizes' /= nresizes =>
            \A i \in 1..Len(passes) :
                /\ passes'[i].depth_texture = passes[i].depth_texture
                /\ passes'[i].depth_texture = ctx_depth_texture
       /\ Submitted =>
            LET new == NewCalls
            IN  \A j \in 1..Count(new, IsBegin) :
                  \A k \in 1..Len(Segment(new, j)) :
                    IsBegin(Segment(new, j)[k]) =>
                        Segment(new, j)[k].depth_view =
                            passes[j].depth_texture
      ]_vars

(* the window was resized to 1024x768 after a pass was begun and got a new
   depth texture; the pass was then rendered with the first one *)
C19_Witness ==
    /\ pc = "submitted"
    /\ nresizes >= 1
    /\ Len(passes) >= 1
    /\ window.depth_texture.id /= 0
    /\ window.depth_texture.width = 1024
    /\ \E k \in 1..Len(device_log) :
          /\ IsBegin(device_log[k])
          /\ device_log[k].depth_view.id = 0
          /\ device_log[k].depth_view.width = 800

(* C20: when the window is resized between begin_render_pass and submit,
   the pass renders against the attachments of before the resize: the
   color target and the depth attachment both have the extent the window
   had when the frame began, so the two have equal extents. *)
C20_AttachmentsPreResize ==
    \A k \in 1..Len(device_log) :
        IsBegin(device_log[k]) =>
            /\ device_log[k].color_view.width = InitialSize.width
            /\ device_log[k].color_view.height = InitialSize.height
            /\ device_log[k].depth_view.width =
                  device_log[k].color_view.width
            /\ device_log[k].depth_view.height =
                  device_log[k].color_view.height

(* C21: when the surface does not hand out its texture, render returns
   that error and has done nothing else: the request is the only device
   call (no encoder, no replayed command, no submission, no present) and
   the pass, its CommandQueue included, is exactly as it was. *)
C21_AcquireFailureDoesNothing ==
    [][passes /= <<>> =>
        \A e \in {"Timeout", "Outdated", "Lost", "OutOfMemory"} :
            RenderPass_render(1, e) =>
                /\ result' = [ok |-> FALSE, err |-> e]
                /\ Len(NewCalls) = 1
                /\ IsAcquire(NewCalls[1])
                /\ NewCalls[1].outcome = e
                /\ passes' = passes]_vars

(* a pass holding a transfer and a draw command was rendered while the
   surface was outdated: it still holds both and the only device call is
   the failed request *)
C21_Witness ==
    /\ pc = "failed"
    /\ result = [ok |-> FALSE, err |-> "Outdated"]
    /\ Len(passes) = 1
    /\ Len(passes[1].command_queue.encoder_commands) = 1
    /\ Len(passes[1].command_queue.draw_commands) = 1
    /\ Len(device_log) = 1
    /\ device_log[1].call = "get_current_texture"

(* C22: the life cycle of a frame has no way back: a context is recorded
   into, then submitted, and once submit was called nothing more is applied
   to it (no pass begun, nothing recorded, no second submit): the callback
   only returns; the next frame starts from a context made anew from the
   window, holding nothing of the frame before. *)
C22_FrameLifeCycle ==
    [][/\ pc = "idle" => pc' \in {"idle", "recording"}
       /\ pc = "recording" =>
            pc' \in {"recording", "submitted", "failed", "panicked"}
       /\ pc \in {"submitted", "failed"} =>
            /\ pc' \in {pc, "idle"}
            /\ <<passes, device_log, result, ncalls, ctx>>' =
                  <<passes, device_log, result, ncalls, ctx>>
       /\ pc = "panicked" => UNCHANGED frame_vars
       /\ (pc = "idle" /\ <<passes, device_log, result, ncalls, ctx>>' /=
                           <<passes, device_log, result, ncalls, ctx>>) =>
            /\ pc' = "recording"
            /\ event_loop'.frames = event_loop.frames + 1
            /\ ctx' = [device |-> window.device_surface,
                       depth_texture |-> window.depth_texture]
            /\ Len(passes') = 1
            /\ passes'[1].command_queue =
                  [draw_commands |-> <<>>, encoder_commands |-> <<>>]
            /\ passes'[1].depth_texture = window.depth_texture
            /\ ncalls' = 0
            /\ device_log' = <<>>
            /\ result' = NoResult
      ]_vars

(* the first frame failed with a lost surface, which the loop answered by
   resizing; the second frame has begun and its context holds one empty
   pass with the window's new depth texture *)
C22_Witness ==
    /\ pc = "recording"
    /\ event_loop.frames = 2
    /\ event_loop.events = 0
    /\ nresizes = 1
    /\ Len(passes) = 1
    /\ passes[1].command_queue = CommandQueue_new
    /\ passes[1].depth_texture.id = 1
    /\ device_log = <<>>

(* Reference counting of the handles (Rc): the strong count of h is the
   number of Rc values pointing at it, the caller's and the queues'; the
   resource lives while the count is positive. *)
RECURSIVE passes_refs(_, _)
passes_refs(ps, h) ==
    IF ps = <<>>
    THEN 0
    ELSE queue_refs(Head(ps).command_queue, h) + passes_refs(Tail(ps), h)

strong_count(h) ==
    (IF h \in caller_refs THEN 1 ELSE 0) + passes_refs(passes, h)

live(h) == strong_count(h) > 0

HandleFields ==
    {"pipeline", "bind_group", "buffer", "indirect_buffer", "src", "dst"}

(* the device call c is made on handle h *)
CallUses(c, h) == \E f \in DOMAIN c \cap HandleFields : c[f] = h

(* the commands queued in ps name handle h *)
Queued(ps, h) ==
    \E i \in 1..Len(ps) :
        \/ \E j \in 1..Len(ps[i].command_queue.draw_commands) :
              CallUses(ps[i].command_queue.draw_commands[j], h)
        \/ \E j \in 1..Len(ps[i].command_queue.encoder_commands) :
              CallUses(ps[i].command_queue.encoder_commands[j], h)

(* C23: a handle named by a queued command is live, whether or not the
   caller still holds a reference of its own; it is live when the pass is
   replayed on it; and once the queue of the pass was cleared the queue
   holds no reference: a handle the caller dropped is then released. *)
C23_QueuedHandlesStayLive ==
    [][/\ \A h \in CallerHandles : Queued(passes, h) => live(h)
       /\ (nrenders' = nrenders + 1 /\ result'.ok) =>
            \A h \in CallerHandles :
                /\ (\E k \in 1..Len(NewCalls) : CallUses(NewCalls[k], h)) =>
                        live(h)
                /\ queue_refs(passes'[1].command_queue, h) = 0
                /\ h \notin caller_refs => ~live(h)'
      ]_vars

(* the caller dropped its reference to the pipeline while it recorded; the
   pass was replayed with a set_pipeline on that pipeline, and the queue was
   cleared: nothing refers to the pipeline any more *)
C23_Witness ==
    /\ pc = "rendered"
    /\ result = Ok
    /\ "user_pipeline" \notin caller_refs
    /\ \E k \in 1..Len(device_log) :
          /\ device_log[k].call = "set_pipeline"
          /\ device_log[k].pipeline = "user_pipeline"
    /\ ~live("user_pipeline")

(* cmds draws the elements of mesh with one indexed draw *)
DrawsMesh(cmds, mesh) ==
    \E k \in 1..Len(cmds) :
        /\ cmds[k].tag = "DrawIndexed"
        /\ cmds[k].indices.end = mesh.num_elements

(* C24: draw_model_instanced on a model one of whose meshes names a material
   the model does not have fails (the lookup of the material is out of
   range). Nothing is checked before the work starts: the pipeline selection
   is already queued and the meshes before the bad one have been worked
   through when the failure happens. No indexed draw of the bad mesh is
   recorded, then or later. *)
C24_BadMaterialFails ==
    [][/\ passes /= <<>> =>
            \A model \in Models \ ValidModels, r \in InstanceRanges :
                DrawCtx_draw_model_instanced(model, r) =>
                    LET bad == first_bad_material(model)
                        built == mesh_draw_model_instanced(model, r,
                                    camera_bind_group, light_bind_group, 1)
                    IN  /\ pc' = "panicked"
                        /\ bad \in 1..Len(model.meshes)
                        /\ model.meshes[bad].material >= Len(model.materials)
                        /\ AddedDraws = <<SetPipeline(default_render_pipeline)>>
                        /\ Len(built) = 6 * (bad - 1)
                        /\ \A i \in 1..(bad - 1) :
                              DrawsMesh(GroupOfSix(built, i), model.meshes[i])
                        /\ ~DrawsMesh(built, model.meshes[bad])
                        /\ ~DrawsMesh(AddedDraws, model.meshes[bad])
       /\ pc = "panicked" => UNCHANGED passes
      ]_vars

(* the model whose second mesh names a missing material was drawn after one
   other call: the call failed and left the pipeline selection as the last
   command of the queue *)
C24_Witness ==
    /\ pc = "panicked"
    /\ passes /= <<>>
    /\ ncalls = 2
    /\ Len(CurrentDraws) = 2
    /\ CurrentDraws[2] = SetPipeline(default_render_pipeline)
    /\ ~DrawsMesh(CurrentDraws, LampMesh)

(* C25: when submit reports the surface lost or outdated, the frame loop
   configures the surface again for the size the window has, and does not
   end the session. *)
C25_SurfaceUnavailableReconfigures ==
    [][(/\ pc = "failed"
        /\ result \in {Err("Lost"), Err("Outdated")}
        /\ pc' = "idle") =>
            /\ window' = resize(window, window.size)
            /\ nresizes' = nresizes + 1
            /\ event_loop'.control_flow /= "Exit"
      ]_vars

(* C26: an out-of-memory error of the surface comes out of submit as it
   is, and the frame loop answers it by setting the control flow to Exit;
   no other result of submit does: apart from a close request, the control
   flow becomes Exit only on that error. After Exit no frame is drawn. *)
C26_OutOfMemoryTerminates ==
    [][/\ (pc = "recording" /\ pc' = "failed"
           /\ device_log'[Len(device_log')].outcome = "OutOfMemory") =>
                result' = Err("OutOfMemory")
       /\ (pc = "failed" /\ result = Err("OutOfMemory") /\ pc' = "idle") =>
                event_loop'.control_flow = "Exit"
       /\ (pc \in {"submitted", "failed"} /\ result /= Err("OutOfMemory")
           /\ pc' = "idle") =>
                event_loop'.control_flow = event_loop.control_flow
       /\ (event_loop.control_flow /= "Exit"
           /\ event_loop'.control_flow = "Exit") =>
                \/ pc = "failed" /\ result = Err("OutOfMemory")
                \/ event_loop'.events = event_loop.events + 1
       /\ event_loop.control_flow = "Exit" => UNCHANGED vars
      ]_vars

(* the second frame failed with OutOfMemory in its second pass and the loop
   was told to exit; no window event was seen *)
C26_Witness ==
    /\ pc = "idle"
    /\ event_loop = [control_flow |-> "Exit", frames |-> 2, events |-> 0,
                     keyboard |-> 0, kept |-> 0]
    /\ result = Err("OutOfMemory")
    /\ Len(passes) = 2
    /\ Len(device_log) > 1
    /\ device_log[Len(device_log)].outcome = "OutOfMemory"

(* C29: a render that returns Ok makes its steps in this order, each once:
   the surface texture is acquired, the encoder is created, the transfers
   are replayed, the render-pass scope is opened, the draws are replayed,
   the scope is closed, the CommandQueue is cleared, the encoder is
   submitted to the device queue, the acquired texture is presented. So the
   submission comes after the scope was closed and present comes last. *)
C29_RenderStepOrder ==
    [][RenderedOk =>
        LET log == NewCalls
            n == Len(log)
            steps == render_steps(passes[1], "Ok")
            m == Len(steps)
            copies == Len(passes[1].command_queue.encoder_commands)
            draws == Len(passes[1].command_queue.draw_commands)
        IN  /\ n = copies + draws + 6
            /\ \A Is \in {"get_current_texture", "create_command_encoder",
                          "begin_render_pass", "end_render_pass",
                          "queue_submit", "present"} :
                  Cardinality({i \in 1..n : log[i].call = Is}) = 1
            /\ IsAcquire(log[1])
            /\ IsCreateEncoder(log[2])
            /\ \A i \in 3..(2 + copies) : IsCopy(log[i])
            /\ IsBegin(log[3 + copies])
            /\ \A i \in (4 + copies)..(n - 3) : IsScopeCall(log[i])
            /\ IsEnd(log[n - 2])
            /\ IsQueueSubmit(log[n - 1])
            /\ IsPresent(log[n])
            /\ device_calls(steps) = log
            /\ m = n + 1
            /\ IsEnd(steps[m - 3])
            /\ steps[m - 2] = command_queue_clear
            /\ IsQueueSubmit(steps[m - 1])
            /\ passes'[1].command_queue = CommandQueue_new
      ]_vars

(* a pass holding one transfer and one draw command was rendered: eight
   device calls, the copy third, the draw fifth, present last *)
C29_Witness ==
    /\ pc = "rendered"
    /\ result = Ok
    /\ nrenders = 1
    /\ Len(device_log) = 8
    /\ IsCopy(device_log[3])
    /\ IsBegin(device_log[4])
    /\ IsScopeCall(device_log[5])
    /\ IsEnd(device_log[6])
    /\ IsQueueSubmit(device_log[7])
    /\ IsPresent(device_log[8])

(* what a light helper records for mesh with the instance range r: no
   material, the camera at slot 0 and the light at slot 1 *)
FiveCommands(mesh, r) ==
    << [tag |-> "SetVertexBuffer", slot |-> 0, buffer |-> mesh.vert_buff],
       [tag |-> "SetIndexBuffer", buffer |-> mesh.index_buff,
        format |-> "Uint32"],
       [tag |-> "SetBindGroup", index |-> 0,
        bind_group |-> "camera_bind_group", offsets |-> None],
       [tag |-> "SetBindGroup", index |-> 1,
        bind_group |-> "light_bind_group", offsets |-> None],
       [tag |-> "DrawIndexed",
        indices |-> [start |-> 0, end |-> mesh.num_elements],
        base_vertex |-> 0, instances |-> r] >>

LightPipeline == [tag |-> "SetPipeline", pipeline |-> "light_render_pipeline"]

(* cmds is the selection of the light pipeline followed by the five
   commands of each mesh of meshes, in order *)
IsLightExpansion(cmds, meshes, r) ==
    /\ Len(cmds) = 1 + 5 * Len(meshes)
    /\ cmds[1] = LightPipeline
    /\ \A i \in 1..Len(meshes) :
          SubSeq(cmds, 5 * (i - 1) + 2, 5 * i + 1) = FiveCommands(meshes[i], r)

MaterialBindGroups ==
    {"mat_bind_group", "lamp_bind_group"}

(* C30: the light helpers record the selection of the light pipeline once,
   then for each mesh SetVertexBuffer(0, vert_buff), SetIndexBuffer(
   index_buff, Uint32), SetBindGroup(0, camera), SetBindGroup(1, light),
   DrawIndexed(0..num_elements, 0, instances), after what the queue held:
   no material is bound and no bind group goes to slot 2. The plain forms
   use the instance range 0..1. *)
C30_LightHelperSequence ==
    [][passes /= <<>> =>
        LET one == [start |-> 0, end |-> 1]
            Light(meshes, r) ==
                /\ Len(CurrentDrawsAfter) >= Len(CurrentDraws)
                /\ SubSeq(CurrentDrawsAfter, 1, Len(CurrentDraws))
                      = CurrentDraws
                /\ IsLightExpansion(AddedDraws, meshes, r)
                /\ \A k \in 1..Len(AddedDraws) :
                      AddedDraws[k].tag = "SetBindGroup" =>
                          /\ AddedDraws[k].bind_group \notin MaterialBindGroups
                          /\ AddedDraws[k].index \in {0, 1}
        IN  /\ \A m \in Meshes :
                /\ DrawCtx_draw_light_mesh(m) => Light(<<m>>, one)
                /\ \A r \in InstanceRanges :
                      DrawCtx_draw_light_mesh_instanced(m, r) =>
                          Light(<<m>>, r)
            /\ \A model \in Models :
                /\ DrawCtx_draw_light_model(model) =>
                      Light(model.meshes, one)
                /\ \A r \in InstanceRanges :
                      DrawCtx_draw_light_model_instanced(model, r) =>
                          Light(model.meshes, r)
      ]_vars

(* after another command, the three-mesh model was drawn as a light with
   the range 0..4: one light pipeline selection, then three groups of five;
   the second group draws the 12 elements of the second mesh with the
   camera at slot 0 and the light at slot 1 *)
C30_Witness ==
    /\ pc = "recording"
    /\ passes /= <<>>
    /\ ncalls = 2
    /\ Len(CurrentDraws) = 17
    /\ CurrentDraws[2] = LightPipeline
    /\ CurrentDraws[10].index = 0
    /\ CurrentDraws[10].bind_group = "camera_bind_group"
    /\ CurrentDraws[11].index = 1
    /\ CurrentDraws[11].bind_group = "light_bind_group"
    /\ CurrentDraws[12].indices.end = 12
    /\ CurrentDraws[12].instances = [start |-> 0, end |-> 4]

(* C31: draw_model_instanced on a model with M meshes appends exactly
   1 + 6*M commands: the selection of the default render pipeline first,
   once and not again per mesh, then M groups of six; for a model without
   meshes it appends the pipeline selection alone and no draw. The plain
   form does the same with the range 0..1. *)
C31_ModelCommandCount ==
    [][passes /= <<>> =>
        LET Expanded(model) ==
                LET M == Len(model.meshes)
                IN  /\ Len(CurrentDrawsAfter) = Len(CurrentDraws) + 1 + 6 * M
                    /\ AddedDraws[1] =
                          [tag |-> "SetPipeline",
                           pipeline |-> "render_pipeline"]
                    /\ \A k \in 2..Len(AddedDraws) :
                          AddedDraws[k].tag /= "SetPipeline"
                    /\ \A i \in 1..M :
                          /\ AddedDraws[6 * i + 1].tag = "DrawIndexed"
                          /\ \A k \in (6 * i - 4)..(6 * i) :
                                AddedDraws[k].tag \in
                                    {"SetVertexBuffer", "SetIndexBuffer",
                                     "SetBindGroup"}
                    /\ Cardinality({k \in 1..Len(AddedDraws) :
                            AddedDraws[k].tag = "DrawIndexed"}) = M
        IN  \A model \in ValidModels :
                /\ DrawCtx_draw_model(model) => Expanded(model)
                /\ \A r \in InstanceRanges :
                      DrawCtx_draw_model_instanced(model, r) =>
                          Expanded(model)
      ]_vars

(* the model without meshes was drawn after the three-mesh model: the
   queue holds the 19 commands of the first call and the one pipeline
   selection of the second *)
C31_Witness ==
    /\ pc = "recording"
    /\ passes /= <<>>
    /\ ncalls = 2
    /\ Len(CurrentDraws) = 20
    /\ CurrentDraws[1].tag = "SetPipeline"
    /\ CurrentDraws[19].tag = "DrawIndexed"
    /\ CurrentDraws[20] = SetPipeline(default_render_pipeline)
    /\ Cardinality({k \in 1..20 : CurrentDraws[k].tag = "SetPipeline"}) = 2

(* C32: a render of a pass whose draw queue holds an ExecuteBundles command
   stops at it (the branch is not implemented): the transfers and the draw
   commands before it were replayed, in order, and then nothing is
   submitted, nothing is presented and the queue stays as it was. No call
   of DrawCtx adds an ExecuteBundles command, so a queue filled through
   DrawCtx alone never stops a render this way. *)
C32_ExecuteBundlesAborts ==
    [][/\ (/\ nrenders' = nrenders + 1
           /\ NewCalls[1].outcome = "Ok") =>
            LET q == passes[1].command_queue
                stop == first_unimplemented(q.draw_commands)
                copies == Len(q.encoder_commands)
            IN  IF stop = 0
                THEN result' = Ok
                ELSE /\ result' = Panic
                     /\ pc' = "panicked"
                     /\ passes' = passes
                     /\ Len(NewCalls) = 3 + copies + (stop - 1)
                     /\ \A k \in 1..copies :
                            /\ IsCopy(NewCalls[2 + k])
                            /\ NewCalls[2 + k].src = q.encoder_commands[k].src
                     /\ IsBegin(NewCalls[3 + copies])
                     /\ CorrespondInOrder(
                            SubSeq(NewCalls, 4 + copies, Len(NewCalls)),
                            SubSeq(q.draw_commands, 1, stop - 1))
                     /\ Count(NewCalls, IsEnd) = 0
                     /\ Count(NewCalls, IsQueueSubmit) = 0
                     /\ Count(NewCalls, IsPresent) = 0
       /\ (ncalls' = ncalls + 1 /\ passes /= <<>>) =>
            /\ Bundles(CurrentDrawsAfter) = Bundles(CurrentDraws)
            /\ Bundles(CurrentDraws) = 0 =>
                  first_unimplemented(CurrentDrawsAfter) = 0
       /\ pc = "panicked" => UNCHANGED <<passes, device_log>>
      ]_vars

(* a transfer and a draw were recorded, an ExecuteBundles command was pushed
   after them and the pass was rendered: the copy and the draw were replayed,
   the render stopped, the three commands are still queued and nothing was
   submitted or presented *)
C32_Witness ==
    /\ pc = "panicked"
    /\ result = Panic
    /\ nrenders = 1
    /\ Len(passes[1].command_queue.encoder_commands) = 1
    /\ Len(passes[1].command_queue.draw_commands) = 2
    /\ passes[1].command_queue.draw_commands[2] = ExecuteBundles
    /\ Len(device_log) = 5
    /\ IsCopy(device_log[3])
    /\ IsBegin(device_log[4])
    /\ IsScopeCall(device_log[5])

(* C33: resize with a zero width or height leaves the stored size, the
   surface configuration and the depth texture as they were and does not
   configure the surface; with both positive it stores the new size, sets
   the configuration to it, configures the surface and installs a new depth
   texture of that size. So the stored size always equals the configured
   size of the surface and both its dimensions are positive. *)
C33_ResizeGuard ==
    [][/\ \A new_size \in WindowSizes :
            RenderWindow_resize(new_size) =>
                IF new_size.width = 0 \/ new_size.height = 0
                THEN /\ window'.size = window.size
                     /\ window'.config = window.config
                     /\ window'.surface_configured = window.surface_configured
                     /\ window'.depth_texture = window.depth_texture
                     /\ window'.configure_calls = window.configure_calls
                ELSE /\ window'.size = new_size
                     /\ window'.config = new_size
                     /\ window'.surface_configured = new_size
                     /\ window'.configure_calls = window.configure_calls + 1
                     /\ window'.depth_texture /= window.depth_texture
                     /\ window'.depth_texture.width = new_size.width
                     /\ window'.depth_texture.height = new_size.height
       /\ window'.size = window'.surface_configured
       /\ window'.size = window'.config
       /\ window'.size.width > 0
       /\ window'.size.height > 0
      ]_vars

(* the window was resized to 1024x768 and then asked for a size with a zero
   dimension, twice: one new depth texture was made, the surface was
   configured once more than at construction, and the size is still
   1024x768 *)
C33_Witness ==
    /\ nresizes = 3
    /\ window.size = PhysicalSize(1024, 768)
    /\ window.surface_configured = PhysicalSize(1024, 768)
    /\ window.textures_made = 2
    /\ window.configure_calls = 2
    /\ window.depth_texture.width = 1024
    /\ window.projection.height = 0

(* C34: after any sequence of resize calls the extent the camera projection
   was given equals the stored size of the window, so that its aspect ratio
   is computed from a height that is not zero. *)
C34_ProjectionMatchesSize ==
    /\ window.projection = window.size
    /\ window.projection.height > 0

(* C35: in the event loop a frame is not interleaved with window events:
   the context is created, its passes begun, recorded into and submitted
   inside one callback, so the window is not resized between the creation
   of a pass and its submit. A resize happens between frames, on a window
   event, or right after a submit that failed with a lost surface. Every
   pass that is submitted therefore has the depth texture the window has,
   and opens its render pass with color and depth of equal extent. *)
C35_FrameAtomic ==
    [][/\ pc \in {"recording", "submitted"} =>
            /\ window' = window
            /\ event_loop'.events = event_loop.events
       /\ nresizes' /= nresizes =>
            \/ pc = "idle" /\ event_loop'.events = event_loop.events + 1
            \/ pc = "failed" /\ result = Err("Lost")
       /\ (pc = "recording" /\ pc' \in {"submitted", "failed"}) =>
            /\ \A i \in 1..Len(passes) :
                    passes[i].depth_texture = window.depth_texture
            /\ \A k \in 1..Len(NewCalls) :
                    IsBegin(NewCalls[k]) =>
                        /\ NewCalls[k].color_view.width =
                              NewCalls[k].depth_view.width
                        /\ NewCalls[k].color_view.height =
                              NewCalls[k].depth_view.height
      ]_vars

(* the window was resized to 1024x768 on an event before the first frame;
   the frame, of two passes, was then submitted: both render passes were
   opened with color and depth of 1024x768 *)
C35_Witness ==
    /\ pc = "submitted"
    /\ event_loop.frames = 1
    /\ event_loop.events = 1
    /\ nresizes = 1
    /\ Len(passes) = 2
    /\ Cardinality({k \in 1..Len(device_log) :
            /\ IsBegin(device_log[k])
            /\ device_log[k].color_view.width = 1024
            /\ device_log[k].depth_view.width = 1024}) = 2

(* C36: in the frame loop every frame has one pass, begun with CLEAR_BLACK,
   before the application's draw_frame is called: while draw_frame records,
   the pass list is not empty and its first pass clears to black, so a
   recording call made from draw_frame never fails for want of a pass; the
   first render pass a submit opens clears color and depth. *)
C36_FirstPassClears ==
    [][/\ (pc = "idle" /\ pc' = "recording") =>
            /\ Len(passes') = 1
            /\ passes'[1].op = [kind |-> "Clear", color |-> "BLACK"]
       /\ pc = "recording" =>
            /\ Len(passes) >= 1
            /\ passes[1].op = [kind |-> "Clear", color |-> "BLACK"]
            /\ \A i \in 2..Len(passes) : passes[i].op /= CLEAR_BLACK
       /\ ncalls' = ncalls + 1 =>
            /\ pc' = "recording"
            /\ Len(passes') = Len(passes)
       /\ (pc = "recording" /\ pc' = "submitted") =>
            LET begins == {k \in 1..Len(NewCalls) : IsBegin(NewCalls[k])}
                first == CHOOSE k \in begins : \A j \in begins : k <= j
            IN  /\ begins /= {}
                /\ NewCalls[first].color_load =
                      [load |-> "Clear", color |-> "BLACK"]
                /\ NewCalls[first].depth_load.load = "Clear"
      ]_vars

(* in the second frame draw_frame recorded an indexed draw without
   beginning a pass of its own; the frame was submitted and its only render
   pass clears to black *)
C36_Witness ==
    /\ pc = "submitted"
    /\ event_loop.frames = 2
    /\ Len(passes) = 1
    /\ ncalls = 1
    /\ Count(device_log, IsBegin) = 1
    /\ \E k \in 1..Len(device_log) : device_log[k].call = "draw_indexed"
    /\ \E k \in 1..Len(device_log) :
          /\ IsBegin(device_log[k])
          /\ device_log[k].color_load = [load |-> "Clear", color |-> "BLACK"]

(* C37: when the application's handle_window_events answers Processing for
   a window event, the engine does nothing of its own for it: a close
   request does not end the loop, a resize or a change of the scale factor
   does not resize the window, a key is not passed to process_keyboard.
   When it answers Done the engine does each of these. *)
C37_ProcessingSkipsDefault ==
    [][\A event \in WindowEvents :
        /\ Radium_window_event(event, "Processing") =>
              /\ event_loop'.control_flow = "Poll"
              /\ window' = window
              /\ nresizes' = nresizes
              /\ event_loop'.keyboard = event_loop.keyboard
        /\ Radium_window_event(event, "Done") =>
              /\ event.kind = "CloseRequested" =>
                    event_loop'.control_flow = "Exit"
              /\ event.kind \in {"Resized", "ScaleFactorChanged"} =>
                    /\ nresizes' = nresizes + 1
                    /\ window' = resize(window, event.size)
              /\ (event.kind = "KeyboardInput"
                  /\ event.virtual_keycode.some) =>
                    event_loop'.keyboard = event_loop.keyboard + 1
              /\ event.kind \notin {"Resized", "ScaleFactorChanged"} =>
                    window' = window
      ]_vars

(* an event was answered with Processing after a frame: the loop goes on,
   the window has its first size and depth texture and no key was passed
   on *)
C37_Witness ==
    /\ pc = "idle"
    /\ event_loop.events = 1
    /\ event_loop.kept = 1
    /\ event_loop.frames = 1
    /\ event_loop.control_flow = "Poll"
    /\ event_loop.keyboard = 0
    /\ nresizes = 0
    /\ window = RenderWindow_new

(* C38: every Model that load_model returns can be drawn by
   draw_model_instanced: the material index of each of its meshes is below
   the number of its materials, also for a mesh without a material id
   (index 0) and for an object file that declares no materials. *)
C38_LoadedModelsDrawable ==
    loaded.result.ok =>
        \A i \in 1..Len(loaded.model.meshes) :
            loaded.model.meshes[i].material < Len(loaded.model.materials)

(* C39: after k pushes on an empty QuadBuffer, current is k, the vertex
   buffer holds 4k vertices and the index buffer 6k indices, the indices
   of the j-th quad (from 0) are 4j, 4j+1, 4j+2, 4j, 4j+2, 4j+3, and every
   index is below 4k: it names a vertex that is there. *)
C39_QuadBufferIndices ==
    LET k == npushes
        q == quad_buffer
    IN  /\ q.current = k
        /\ Len(q.vert_buf) = 4 * k
        /\ Len(q.index_buf) = 6 * k
        /\ \A j \in 0..(k - 1) :
              SubSeq(q.index_buf, 6 * j + 1, 6 * j + 6) =
                  <<4 * j, 4 * j + 1, 4 * j + 2, 4 * j, 4 * j + 2, 4 * j + 3>>
        /\ \A i \in 1..Len(q.index_buf) :
              /\ q.index_buf[i] >= 0
              /\ q.index_buf[i] < 4 * k

(* three quads were pushed, the second one transformed (its first vertex
   is not the untransformed corner): twelve vertices, eighteen indices, the
   last index is 11 *)
C39_Witness ==
    /\ npushes = 3
    /\ quad_buffer.current = 3
    /\ Len(quad_buffer.vert_buf) = 12
    /\ Len(quad_buffer.index_buf) = 18
    /\ quad_buffer.index_buf[18] = 11
    /\ quad_buffer.vert_buf[1].position = <<-1, -1, 0>>
    /\ quad_buffer.vert_buf[5].position = <<-2, -2, 0>>
    /\ quad_buffer.vert_buf[9].position = <<3, 0, 0>>

====
